---- MODULE Spec2Model ----
(***************************************************************************)
(* The branch/time tracker of allegedb's ORM (LiSE/allegedb/__init__.py):  *)
(* the cursor (branch, turn, tick), the branch table, the per-turn end     *)
(* ticks, the loaded windows, plans, and the contexts plan() and           *)
(* advancing().  Every operation of the ORM is one action; an exception    *)
(* raised by an operation is recorded in err, and the caller catches it.   *)
(***************************************************************************)
EXTENDS Integers, Sequences, FiniteSets, TLC

\* ---------------------------------------------------------------- bounds
MaxTurn == 2
MaxTick == 2
MaxSteps == 4

BranchNames == {"trunk", "b1", "b2"}
Turns == 0..MaxTurn
Ticks == 0..MaxTick
Values == {1, 2}
NoValue == 0

VARIABLES
    obranch, oturn, otick,      \* ORM._obranch, _oturn, _otick
    branches,                   \* ORM._branches: branch -> parent, start, end
    branch_parents,             \* ORM._branch_parents: branch -> set of names
    turn_end,                   \* ORM._turn_end: (branch, turn) -> tick
    turn_end_plan,              \* ORM._turn_end_plan: (branch, turn) -> tick
    loaded,                     \* ORM._loaded: branch -> window
    keyframes_times,            \* ORM._keyframes_times
    rows,                       \* the cache rows: (branch, turn, tick) -> value
    db,                         \* the backend rows: (branch, turn, tick) -> value
    kfc,                        \* the caches' keyframes: (branch, turn, tick) -> value
    kfdb,                       \* the backend keyframes
    new_keyframes,              \* ORM._new_keyframes
    planning, forward,          \* ORM._planning, ORM._forward
    ctx,                        \* the stack of open with-blocks
    last_plan, plans, branches_plans, plan_ticks, time_plan,
    op, arg_b, arg_n,           \* the last operation called and its arguments
    err,                        \* the exception it raised, or "none"
    ret,                        \* the coordinate _nbtt returned, or << >>
    issued,                     \* every coordinate _nbtt has returned
    steps,                      \* number of operations called
    nodes_settings,             \* _nodes_cache: settings and presettings
    node_val_settings,          \* _node_val_cache: settings and presettings
    edges_settings,             \* _edges_cache: settings and presettings
    edge_val_settings,          \* _edge_val_cache: settings and presettings
    dnow,                       \* the (turn, tick) the caller of get_delta is at
    dargs,                      \* the arguments of the last get_delta
    delta,                      \* what the last get_delta returned
    graphs,                     \* ORM.graph: the names of the graphs created
    keyframes_list,             \* ORM._keyframes_list: (graph, branch, turn, tick)
    graph_keyframes,            \* the caches' keyframes, per graph
    graph_new_keyframes,        \* ORM._new_keyframes, per graph
    no_kc,                      \* ORM._no_kc, the batch flag
    wd_items,                   \* a WindowDict's entries, in key order
    wd_cursor,                  \* the key the WindowDict was last sought to
    wd_args,                    \* the arguments of the last set or slice
    sent,                       \* what the time signal sent in the last time assignment
    turns_dump                  \* the backend's turns: (branch, turn) -> (end, plan end)

timeVars == <<obranch, oturn, otick>>
tableVars == <<branches, branch_parents, turn_end, turn_end_plan>>
cacheVars == <<loaded, keyframes_times, rows, db, kfc, kfdb, new_keyframes>>
modeVars == <<planning, forward, ctx>>
planVars == <<last_plan, plans, branches_plans, plan_ticks, time_plan>>
obsVars == <<op, arg_b, arg_n, err, ret, issued, steps>>
engineVars == <<timeVars, tableVars, cacheVars, modeVars, planVars>>
deltaVars == <<nodes_settings, node_val_settings, edges_settings, edge_val_settings,
              dnow, dargs, delta>>
graphVars == <<graphs, keyframes_list, graph_keyframes, graph_new_keyframes>>
windowVars == <<wd_items, wd_cursor, wd_args>>
vars == <<timeVars, tableVars, cacheVars, modeVars, planVars, obsVars, deltaVars,
          graphVars, no_kc, windowVars, sent, turns_dump>>

\* ------------------------------------------------------------- helpers
\* (t1, k1) < (t2, k2), the lexicographic comparison the code spells out
Before(t1, k1, t2, k2) == t1 < t2 \/ (t1 = t2 /\ k1 < k2)
After(t1, k1, t2, k2) == t1 > t2 \/ (t1 = t2 /\ k1 > k2)
AtOrBefore(t1, k1, t2, k2) == ~After(t1, k1, t2, k2)

\* d[k] = v on a dict
Put(d, k, v) == [x \in (DOMAIN d) \cup {k} |-> IF x = k THEN v ELSE d[x]]
\* del d[k]
Del(d, k) == [x \in (DOMAIN d) \ {k} |-> d[x]]
\* reading d[k] on a defaultdict(lambda: 0): the value ...
DGet(d, k) == IF k \in DOMAIN d THEN d[k] ELSE 0
\* ... and the dict afterwards (a missing key is inserted with 0)
DTouch(d, k) == IF k \in DOMAIN d THEN d ELSE Put(d, k, 0)

BranchRec(parent, turn_start, tick_start, turn_end_, tick_end) ==
    [parent |-> parent, turn_start |-> turn_start, tick_start |-> tick_start,
     turn_end |-> turn_end_, tick_end |-> tick_end]

\* loaded_keep_test
loaded_keep_test(test_turn, test_tick, past_turn, past_tick, future_turn, future_tick) ==
    /\ (past_turn < test_turn \/ (past_turn = test_turn /\ past_tick <= test_tick))
    /\ (future_turn > test_turn \/ (future_turn = test_turn /\ future_tick >= test_tick))

\* ------------------------------------------------------ _iter_parent_btt
\* _iter_parent_btt(branch, turn, tick): the coordinate itself, then the fork
\* point of each branch on the way to the root, on the parent it forked from
RECURSIVE iter_parent_btt(_, _, _, _)
iter_parent_btt(brs, branch, turn, tick) ==
    <<<<branch, turn, tick>>>> \o
    (IF brs[branch].parent = "None" THEN << >>
     ELSE iter_parent_btt(brs, brs[branch].parent,
                          brs[branch].turn_start, brs[branch].tick_start))

\* ------------------------------------------------------------ _load_at
\* the orders in which the set _keyframes_times may be iterated
RECURSIVE Orders(_)
Orders(S) ==
    IF S = {} THEN {<< >>}
    ELSE UNION {{<<x>> \o o : o \in Orders(S \ {x})} : x \in S}

\* latest_past_keyframe / earliest_future_keyframe = None
NoKeyframe == << >>

\* self._branch_parents[b] (a defaultdict(set))
BranchParentsOf(bp, b) == IF b \in DOMAIN bp THEN bp[b] ELSE {}

\* one turn of the loop over _keyframes_times: keyframe c against the
\* keyframes chosen so far, for the target coordinate now
SelectKeyframe(sel, c, now, bp) ==
    LET late == sel.past
        early == sel.future
        pastBetter == late = NoKeyframe \/ late[1] # c[1]
                      \/ late[2] < c[2] \/ (late[2] = c[2] /\ late[3] < c[3])
        futureBetter == early = NoKeyframe \/ early[1] # c[1]
                        \/ early[2] > c[2] \/ (early[2] = c[2] /\ early[3] > c[3])
    IN IF c[1] = now[1]
       THEN IF Before(c[2], c[3], now[2], now[3])
            THEN [sel EXCEPT !.past = IF pastBetter THEN c ELSE late]
            ELSE IF After(c[2], c[3], now[2], now[3])
            THEN [sel EXCEPT !.future = IF futureBetter THEN c ELSE early]
            ELSE [sel EXCEPT !.past = c]
       ELSE IF c[1] \in BranchParentsOf(bp, now[1])
       THEN IF late = NoKeyframe
            THEN [sel EXCEPT !.past = c]
            ELSE IF c[1] = late[1]
            THEN [sel EXCEPT !.past = IF After(c[2], c[3], late[2], late[3])
                                      THEN c ELSE late]
            ELSE IF late[1] \in BranchParentsOf(bp, c[1])
            THEN [sel EXCEPT !.past = c]
            ELSE sel
       ELSE sel

RECURSIVE SelectKeyframes(_, _, _, _)
SelectKeyframes(sel, ord, now, bp) ==
    IF ord = << >> THEN sel
    ELSE SelectKeyframes(SelectKeyframe(sel, Head(ord), now, bp), Tail(ord), now, bp)

\* the two keyframes _load_at picks when the set is iterated in order ord
BracketingKeyframes(ord, now, bp) ==
    SelectKeyframes([past |-> NoKeyframe, future |-> NoKeyframe], ord, now, bp)

\* the window of the future keyframe's branch is made to reach it
LoadFutureWindow(ld, kf, now) ==
    IF kf = NoKeyframe THEN ld
    ELSE IF kf[1] \in DOMAIN ld
    THEN LET w == ld[kf[1]]
         IN IF After(kf[2], kf[3], w[3], w[4])
            THEN Put(ld, kf[1], <<w[1], w[2], kf[2], kf[3]>>) ELSE ld
    ELSE IF kf[1] = now[1]
    THEN IF After(kf[2], kf[3], now[2], now[3])
         THEN Put(ld, kf[1], <<now[2], now[3], kf[2], kf[3]>>) ELSE ld
    ELSE Put(ld, kf[1], <<kf[2], kf[3], kf[2], kf[3]>>)

\* the window of the past keyframe's branch is made to reach it
LoadPastWindow(ld, kf, now) ==
    IF kf = NoKeyframe THEN ld
    ELSE IF kf[1] \in DOMAIN ld
    THEN LET w == ld[kf[1]]
         IN IF Before(kf[2], kf[3], w[1], w[2])
            THEN Put(ld, kf[1], <<kf[2], kf[3], w[3], w[4]>>) ELSE ld
    ELSE IF kf[1] = now[1]
    THEN IF Before(kf[2], kf[3], now[2], now[3])
         THEN Put(ld, kf[1], <<kf[2], kf[3], now[2], now[3]>>) ELSE ld
    ELSE Put(ld, kf[1], <<kf[2], kf[3], kf[2], kf[3]>>)

\* the window of the target's branch is made to hold the target
LoadNowWindow(ld, now) ==
    IF now[1] \in DOMAIN ld
    THEN LET w == ld[now[1]]
         IN IF Before(now[2], now[3], w[1], w[2])
            THEN Put(ld, now[1], <<now[2], now[3], w[3], w[4]>>)
            ELSE IF After(now[2], now[3], w[3], w[4])
            THEN Put(ld, now[1], <<w[1], w[2], now[2], now[3]>>)
            ELSE ld
    ELSE Put(ld, now[1], <<now[2], now[3], now[2], now[3]>>)

\* updload(branch, turn, tick) of _load_at: widen a window to hold (t, k)
updload(w, t, k) ==
    LET early == IF Before(t, k, w[1], w[2]) THEN <<t, k>> ELSE <<w[1], w[2]>>
        late == IF After(t, k, w[3], w[4]) THEN <<t, k>> ELSE <<w[3], w[4]>>
    IN <<early[1], early[2], late[1], late[2]>>

RECURSIVE UpdloadAll(_, _)
UpdloadAll(w, cs) ==
    IF cs = {} THEN w
    ELSE LET c == CHOOSE x \in cs : TRUE
         IN UpdloadAll(updload(w, c[2], c[3]), cs \ {c})

\* query.nodes_dump(): the rows of a branch in the backend
RowTimes(b) == {c \in DOMAIN db : c[1] = b}

\* query.load_nodes(graph, branch, turn_from, tick_from[, turn_to, tick_to])
LoadNodes(b, t0, k0, t1, k1) ==
    {c \in DOMAIN db : c[1] = b /\ AtOrBefore(t0, k0, c[2], c[3])
                                /\ AtOrBefore(c[2], c[3], t1, k1)}
LoadNodesFrom(b, t0, k0) ==
    {c \in DOMAIN db : c[1] = b /\ AtOrBefore(t0, k0, c[2], c[3])}

\* Cache.load(rows): the rows become resident
CacheLoad(rs, cs) ==
    [c \in DOMAIN rs \cup cs |-> IF c \in cs THEN db[c] ELSE rs[c]]

\* _load_at when no keyframe was picked as past keyframe: every row of the
\* backend is loaded and its branch's window widened to hold it
LoadEverything(st) ==
    IF \E c \in DOMAIN db : c[1] \notin DOMAIN st.loaded
    THEN [st EXCEPT !.err = "KeyError"]
    ELSE [st EXCEPT !.loaded = [b \in DOMAIN st.loaded |->
                                    UpdloadAll(st.loaded[b], RowTimes(b))],
                    !.rows = CacheLoad(@, DOMAIN db)]

\* the window a default-valued loaded.get(branch, ...) reads
LoadedGet(ld, b, now) ==
    IF b \in DOMAIN ld THEN ld[b] ELSE <<now[2], now[3], now[2], now[3]>>

\* _load_at with a past keyframe and no future keyframe; stale is the branch
\* the loop over _keyframes_times left in the local variable "branch"
LoadAfterPast(st, past, stale, now) ==
    LET cs == LoadNodesFrom(past[1], past[2], past[3])
        w0 == LoadedGet(st.loaded, stale, now)
        s0 == IF Before(past[2], past[3], w0[1], w0[2])
              THEN <<past[2], past[3]>> ELSE <<w0[1], w0[2]>>
        span == UpdloadAll(<<s0[1], s0[2], w0[3], w0[4]>>, cs)
        branch == IF cs = {} THEN stale ELSE past[1]
        old == LoadedGet(st.loaded, branch, now)
        start == IF Before(span[1], span[2], old[1], old[2])
                 THEN <<span[1], span[2]>> ELSE <<old[1], old[2]>>
        end == IF After(span[3], span[4], old[3], old[4])
               THEN <<span[3], span[4]>> ELSE <<old[3], old[4]>>
    IN [st EXCEPT !.loaded = Put(@, branch, <<start[1], start[2], end[1], end[2]>>),
                  !.rows = CacheLoad(@, cs)]

\* _load_at with both keyframes on one branch
LoadBetween(st, past, future, stale) ==
    LET cs == LoadNodes(past[1], past[2], past[3], future[2], future[3])
        branch == IF cs = {} THEN stale ELSE past[1]
        both == <<past[2], past[3], future[2], future[3]>>
    IN [st EXCEPT !.loaded = Put(@, branch,
                                 IF branch \in DOMAIN st.loaded
                                 THEN updload(updload(st.loaded[branch], past[2], past[3]),
                                              future[2], future[3])
                                 ELSE both),
                  !.rows = CacheLoad(@, cs)]

\* the windows between a past keyframe and a future keyframe on another
\* branch, in the order they are appended; << >> when the lineage of the
\* future keyframe never reaches the past keyframe's branch
RECURSIVE LineageWindows(_, _, _)
LineageWindows(path, past, future) ==
    IF path = << >> THEN << >>
    ELSE LET step == <<future[1], Head(path)[2], Head(path)[3], future[2], future[3]>>
         IN IF Head(path)[1] = past[1]
            THEN <<step, <<past[1], past[2], past[3], Head(path)[2], Head(path)[3]>>>>
            ELSE LET rest == LineageWindows(Tail(path), past, future)
                 IN IF rest = << >> THEN << >> ELSE <<step>> \o rest

\* one window of reversed(windows): its rows are loaded and the window of
\* whatever branch the local variable "branch" names is widened to hold them
LoadWindow(st, win, branch) ==
    LET cs == LoadNodes(win[1], win[2], win[3], win[4], win[5])
    IN IF branch \notin DOMAIN st.loaded
       THEN [st EXCEPT !.err = "KeyError"]
       ELSE [st EXCEPT !.loaded = Put(@, IF cs = {} THEN branch ELSE win[1],
                                      UpdloadAll(st.loaded[branch], cs)),
                       !.rows = CacheLoad(@, cs),
                       !.stale = IF cs = {} THEN branch ELSE win[1]]

RECURSIVE LoadWindows(_, _)
LoadWindows(st, wins) ==
    IF wins = << >> \/ st.err # "none" THEN st
    ELSE LoadWindows(LoadWindow(st, wins[Len(wins)], st.stale),
                     SubSeq(wins, 1, Len(wins) - 1))

\* _load_at with the two keyframes on different branches
LoadAcross(st, brs, past, future, stale) ==
    LET path == Tail(iter_parent_btt(brs, future[1], future[2], future[3]))
        wins == LineageWindows(path, past, future)
    IN IF wins = << >>
       THEN [st EXCEPT !.err = IF path = << >> THEN "NameError" ELSE "AssertionError"]
       ELSE LoadWindows([st EXCEPT !.stale = stale], wins)

\* _load_at(branch, turn, tick) with _keyframes_times iterated in order ord
LoadAt(ord, branch_now, turn_now, tick_now) ==
    LET now == <<branch_now, turn_now, tick_now>>
        sel == BracketingKeyframes(ord, now, branch_parents)
        ld == LoadNowWindow(LoadPastWindow(LoadFutureWindow(loaded, sel.future, now),
                                           sel.past, now), now)
        st == [loaded |-> ld, rows |-> rows, kfc |-> kfc, err |-> "none",
               past |-> sel.past, future |-> sel.future, stale |-> ""]
        stale == ord[Len(ord)][1]
        snapped == [st EXCEPT !.kfc = Put(@, sel.past, kfdb[sel.past])]
    IN IF sel.past = NoKeyframe
       THEN LoadEverything(st)
       ELSE IF sel.past \notin DOMAIN kfdb
       THEN st
       ELSE IF sel.future = NoKeyframe
       THEN LoadAfterPast(snapped, sel.past, stale, now)
       ELSE IF sel.past[1] = sel.future[1]
       THEN LoadBetween(snapped, sel.past, sel.future, stale)
       ELSE LoadAcross(snapped, branches, sel.past, sel.future, stale)

\* "with self.batch():" around the cache loads that end _load_at: while a
\* batch is open it raises "Already in a batch", after the window map was
\* updated and before any row is loaded
LoadInBatch(r) ==
    IF no_kc /\ r.err = "none"
    THEN [r EXCEPT !.rows = rows, !.err = "ValueError"]
    ELSE r

\* every outcome of _load_at at a coordinate
LoadAtAny(branch_now, turn_now, tick_now) ==
    {LoadInBatch(LoadAt(ord, branch_now, turn_now, tick_now)) :
        ord \in Orders(keyframes_times)}

\* the caches when nothing is paged in and the window map becomes ld
NoLoad(ld) ==
    {[loaded |-> ld, rows |-> rows, kfc |-> kfc, err |-> "none",
      past |-> NoKeyframe, future |-> NoKeyframe, stale |-> ""]}

\* ---------------------------------------------------------------- Init
\* ORM.__init__ on a fresh database, _init_load included
Init ==
    /\ obranch = "trunk" /\ oturn = 0 /\ otick = 0
    /\ branches = [b \in {"trunk"} |-> BranchRec("None", 0, 0, 0, 0)]
    /\ branch_parents = [b \in {} |-> {}]
    /\ turn_end = [k \in {} |-> 0]
    /\ turn_end_plan = [k \in {} |-> 0]
    /\ loaded = [b \in {"trunk"} |-> <<0, 0, 0, 0>>]
    /\ keyframes_times = {}
    /\ rows = [c \in {} |-> NoValue]
    /\ db = [c \in {} |-> NoValue]
    /\ kfc = [c \in {} |-> NoValue]
    /\ kfdb = [c \in {} |-> NoValue]
    /\ new_keyframes = [c \in {} |-> NoValue]
    /\ planning = FALSE /\ forward = FALSE
    /\ ctx = << >>
    /\ last_plan = -1
    /\ plans = [p \in {} |-> << >>]
    /\ branches_plans = [b \in {} |-> {}]
    /\ plan_ticks = [p \in {} |-> << >>]
    /\ time_plan = [c \in {} |-> 0]
    /\ op = "init" /\ arg_b = "" /\ arg_n = 0
    /\ err = "none" /\ ret = << >> /\ issued = {}
    /\ steps = 0
    /\ nodes_settings = << >> /\ node_val_settings = << >>
    /\ edges_settings = << >> /\ edge_val_settings = << >>
    /\ dnow = <<0, 0>>
    /\ dargs = << >>
    /\ delta = [nodes |-> << >>, node_val |-> << >>, edges |-> << >>, edge_val |-> << >>]
    /\ graphs = {} /\ keyframes_list = {}
    /\ graph_keyframes = {} /\ graph_new_keyframes = {}
    /\ no_kc = FALSE
    /\ wd_items = << >> /\ wd_cursor = -1 /\ wd_args = << >>
    /\ sent = << >>
    /\ turns_dump = [k \in {} |-> << >>]

\* an operation is called: what every action records about the call
Call(name, b, n) ==
    /\ op' = name /\ arg_b' = b /\ arg_n' = n
    /\ steps' = steps + 1
    /\ UNCHANGED <<deltaVars, graphVars, no_kc, windowVars, sent, turns_dump>>

\* the operation raises e before it has changed anything
Raise(e) ==
    /\ err' = e
    /\ ret' = << >>
    /\ UNCHANGED <<timeVars, tableVars, cacheVars, modeVars, planVars, issued>>

\* ----------------------------------------------------------- _set_turn
\* what an operation leaves in the caches when its paging came out as r
Paged(r) ==
    /\ loaded' = r.loaded /\ rows' = r.rows /\ kfc' = r.kfc
    /\ err' = r.err /\ ret' = << >>
    /\ UNCHANGED <<keyframes_times, db, kfdb, new_keyframes>>

\* the outcomes for the caches of a move to (v, tick) inside _set_turn
SetTurnWindow(branch, v, tick, sameTurn) ==
    LET w == loaded[branch]
    IN IF After(v, tick, w[3], w[4])
       THEN IF <<branch, v, tick>> \in keyframes_times
            THEN LoadAtAny(branch, v, tick)
            ELSE NoLoad(Put(loaded, branch,
                            <<w[1], w[2], IF sameTurn THEN w[3] ELSE v, tick>>))
       ELSE IF ~sameTurn /\ Before(v, tick, w[1], w[2])
       THEN LoadAtAny(branch, v, tick)
       ELSE NoLoad(loaded)

\* the forward-mode check of _set_turn
SetTurnArrow(v) == forward /\ v < oturn

SetTurn(v) ==
    /\ Call("set_turn", "", v)
    /\ LET branch == obranch
           key == <<branch, v>>
       IN IF v = oturn
          THEN LET tep == DTouch(turn_end_plan, key)
                   tick == tep[key]
               IN /\ turn_end_plan' = tep
                  /\ otick' = tick
                  /\ \E r \in (IF branch \notin DOMAIN loaded
                               THEN NoLoad(Put(loaded, branch, <<v, tick, v, tick>>))
                               ELSE SetTurnWindow(branch, v, tick, TRUE)) : Paged(r)
                  /\ UNCHANGED <<obranch, oturn, branches, branch_parents, turn_end,
                                 modeVars, planVars, issued>>
          ELSE IF SetTurnArrow(v)
          THEN Raise("ValueError")
          ELSE IF branch # "trunk" /\ v < branches[branch].turn_start
          THEN Raise("ValueError")
          ELSE IF branch \notin DOMAIN loaded
          THEN LET tick == DGet(turn_end_plan, key)
               IN /\ \E r \in LoadAtAny(branch, v, tick) :
                        /\ Paged(r)
                        /\ IF r.err = "none"
                           THEN otick' = tick /\ oturn' = v
                           ELSE UNCHANGED <<otick, oturn>>
                  /\ UNCHANGED <<obranch, tableVars, modeVars, planVars, issued>>
          ELSE LET tep == DTouch(turn_end_plan, key)
                   tick == tep[key]
               IN /\ turn_end_plan' = tep
                  /\ \E r \in SetTurnWindow(branch, v, tick, FALSE) :
                        /\ Paged(r)
                        /\ IF r.err = "none"
                           THEN otick' = tick /\ oturn' = v
                           ELSE UNCHANGED <<otick, oturn>>
                  /\ UNCHANGED <<obranch, branches, branch_parents, turn_end,
                                 modeVars, planVars, issued>>

\* ----------------------------------------------------------- _set_tick
\* the forward-mode check of _set_tick
SetTickArrow(v) == forward /\ v < otick

SetTick(v) ==
    /\ Call("set_tick", "", v)
    /\ LET branch == obranch
           turn == oturn
           time == <<branch, turn>>
           tep0 == DTouch(turn_end_plan, time)
           tep == IF v > tep0[time] THEN Put(tep0, time, v) ELSE tep0
           te0 == DTouch(turn_end, time)
           te == IF planning THEN turn_end
                 ELSE IF v > te0[time] THEN Put(te0, time, v) ELSE te0
           br == branches[branch]
           brs == IF ~planning /\ turn = br.turn_end /\ v > br.tick_end
                  THEN Put(branches, branch,
                           BranchRec(br.parent, br.turn_start, br.tick_start, turn, v))
                  ELSE branches
       IN IF SetTickArrow(v)
          THEN Raise("ValueError")
          ELSE /\ turn_end_plan' = tep
               /\ turn_end' = te
               /\ branches' = brs
               /\ otick' = v
               /\ \E r \in (IF branch \notin DOMAIN loaded
                            THEN LoadAtAny(branch, turn, v)
                            ELSE LET w == loaded[branch]
                                 IN IF After(turn, v, w[3], w[4])
                                    THEN IF <<branch, w[3], w[4]>> \in keyframes_times
                                         THEN LoadAtAny(branch, turn, v)
                                         ELSE NoLoad(Put(loaded, branch,
                                                         <<w[1], w[2], turn, v>>))
                                    ELSE IF Before(turn, v, w[1], w[2])
                                    THEN LoadAtAny(branch, turn, v)
                                    ELSE NoLoad(loaded)) : Paged(r)
               /\ UNCHANGED <<obranch, oturn, branch_parents, modeVars, planVars, issued>>

\* --------------------------------------------------------------- _nbtt
\* plan_ticks[plan][turn].append(tick): a plan's ticks are a dict of lists,
\* kept here as the sequence of its (turn, ticks) items in insertion order
PlanTicksOf(pt, p) == IF p \in DOMAIN pt THEN pt[p] ELSE << >>
PlanTurns(items) == {items[i].turn : i \in DOMAIN items}
PlanItem(items, turn) == CHOOSE i \in DOMAIN items : items[i].turn = turn
PlanAppend(pt, p, turn, tick) ==
    LET items == PlanTicksOf(pt, p)
    IN Put(pt, p,
           IF turn \in PlanTurns(items)
           THEN [items EXCEPT ![PlanItem(items, turn)].ticks = Append(@, tick)]
           ELSE Append(items, [turn |-> turn, ticks |-> <<tick>>]))
\* the (turn, tick) pairs of a plan, in the order its items are iterated
RECURSIVE Flatten(_)
Flatten(items) ==
    IF items = << >> THEN << >>
    ELSE [j \in DOMAIN Head(items).ticks |-> <<Head(items).turn, Head(items).ticks[j]>>]
         \o Flatten(Tail(items))
SeqRange(q) == {q[i] : i \in DOMAIN q}
PlanTimes(pt, p) == SeqRange(Flatten(PlanTicksOf(pt, p)))

\* a write that lands on the root whatever branch the cursor is on
NbttBranchRoot == "trunk"
\* the branch _nbtt writes on: the branch of _btt()
NbttBranch == obranch

\* a next tick that is always one past the cursor
NbttTickNext == otick + 1
\* the tick _nbtt returns: one past the cursor, or one past the end of the
\* turn's plan when the cursor is not beyond it
NbttTick ==
    LET branch_turn == <<obranch, oturn>>
        tick == otick + 1
    IN IF branch_turn \in DOMAIN turn_end_plan /\ tick <= turn_end_plan[branch_turn]
       THEN turn_end_plan[branch_turn] + 1
       ELSE tick

\* "(turn, tick) in plan_ticks[last_plan]": the keys of that dict are turns,
\* so a (turn, tick) pair is never among them
NbttPlanned(turn, tick) == FALSE

\* _exist_node: _nbtt(), then the row is stored at the coordinate it returned
Write(val) ==
    /\ Call("write", "", val)
    /\ LET branch == NbttBranch
           turn == oturn
           branch_turn == <<branch, turn>>
           tick == NbttTick
           te == DTouch(turn_end, branch_turn)
           br == branches[branch]
       IN /\ tick <= MaxTick
          /\ IF te[branch_turn] > tick \/ turn < br.turn_end
                \/ (planning /\ NbttPlanned(turn, tick))
             THEN /\ err' = "HistoryError" /\ ret' = << >>
                  /\ turn_end' = te
                  /\ UNCHANGED <<timeVars, branches, branch_parents, turn_end_plan,
                                 cacheVars, modeVars, planVars, issued>>
             ELSE /\ turn_end' = te
                  /\ plan_ticks' = IF planning
                                   THEN PlanAppend(plan_ticks, last_plan, turn, tick)
                                   ELSE plan_ticks
                  /\ time_plan' = IF planning
                                  THEN Put(time_plan, <<branch, turn, tick>>, last_plan)
                                  ELSE time_plan
                  /\ turn_end_plan' = Put(turn_end_plan, branch_turn, tick)
                  /\ branches' = Put(branches, branch,
                                     BranchRec(br.parent, br.turn_start, br.tick_start,
                                               br.turn_end, tick))
                  /\ loaded' =
                       IF branch \in DOMAIN loaded
                       THEN LET w == loaded[branch]
                            IN IF turn > w[3]
                               THEN Put(loaded, branch, <<w[1], w[2], turn, tick>>)
                               ELSE IF turn = w[3] /\ tick > w[4]
                               THEN Put(loaded, branch, <<w[1], w[2], w[3], tick>>)
                               ELSE loaded
                       ELSE Put(loaded, branch, <<turn, tick, turn, tick>>)
                  /\ otick' = tick
                  /\ rows' = Put(rows, <<branch, turn, tick>>, val)
                  /\ db' = Put(db, <<branch, turn, tick>>, val)
                  /\ err' = "none"
                  /\ ret' = <<branch, turn, tick>>
                  /\ issued' = issued \cup {<<branch, turn, tick>>}
                  /\ UNCHANGED <<obranch, oturn, branch_parents, keyframes_times,
                                 kfc, kfdb, new_keyframes,
                                 modeVars, last_plan, plans, branches_plans>>

\* --------------------------------------------------- _upd_branch_parentage
RECURSIVE ParentChain(_, _)
\* the names the while loop adds, starting from parent
ParentChain(brs, parent) ==
    IF parent \in DOMAIN brs
    THEN {brs[parent].parent} \cup ParentChain(brs, brs[parent].parent)
    ELSE {}
upd_branch_parentage(bp, brs, parent, child) ==
    Put(bp, child,
        (IF child \in DOMAIN bp THEN bp[child] ELSE {})
            \cup {parent} \cup ParentChain(brs, parent))

\* ----------------------------------------------------------- _copy_plans
\* the caches that stored something at a coordinate (ORM._where_cached)
WhereCached(rs, c) == c \in DOMAIN rs

\* one (turn, tick) of a plan being copied onto the new branch
CopyTick(st, newid, branch_from, branch, turn, tick) ==
    IF WhereCached(st.rows, <<branch_from, turn, tick>>)
    THEN [st EXCEPT
            !.rows = Put(@, <<branch, turn, tick>>, st.rows[<<branch_from, turn, tick>>]),
            !.db = Put(@, <<branch, turn, tick>>, st.rows[<<branch_from, turn, tick>>]),
            !.plan_ticks = PlanAppend(@, newid, turn, tick),
            !.time_plan = Put(@, <<branch, turn, tick>>, newid),
            !.tep = Put(@, <<branch, turn>>, tick)]
    ELSE st

RECURSIVE CopyTicks(_, _, _, _, _)
CopyTicks(st, newid, branch_from, branch, times) ==
    IF times = << >> THEN st
    ELSE CopyTicks(CopyTick(st, newid, branch_from, branch, Head(times)[1], Head(times)[2]),
                   newid, branch_from, branch, Tail(times))

\* the ticks of a plan that are at or after the fork point
CopiedTimes(items, turn_from, tick_from) ==
    SelectSeq(Flatten(items),
              LAMBDA c : ~(c[1] < turn_from) /\ ~(c[1] = turn_from /\ c[2] < tick_from))

\* one plan of the parent branch
CopyPlan(st, plan_id, branch_from, branch, turn_from, tick_from) ==
    LET start == st.plans[plan_id]
        times == CopiedTimes(PlanTicksOf(st.plan_ticks, plan_id), turn_from, tick_from)
        newid == st.last_plan + 1
    IN IF After(start[2], start[3], turn_from, tick_from) \/ times = << >>
       THEN st
       ELSE CopyTicks([st EXCEPT !.last_plan = newid,
                                 !.plans = Put(@, newid,
                                               <<branch, Head(times)[1], Head(times)[2]>>)],
                      newid, branch_from, branch, times)

RECURSIVE CopyPlans(_, _, _, _, _, _)
\* the plans of branch_from, taken in ascending order of plan id
CopyPlans(st, ids, branch_from, branch, turn_from, tick_from) ==
    IF ids = {} THEN st
    ELSE LET p == CHOOSE x \in ids : \A y \in ids : x <= y
         IN CopyPlans(CopyPlan(st, p, branch_from, branch, turn_from, tick_from),
                      ids \ {p}, branch_from, branch, turn_from, tick_from)

\* --------------------------------------------------------- _set_branch
\* "Don't change branches while planning"
SetBranchPlanning == planning

\* a branch setter that never looks at the fork turn
SetBranchBeforeForkNever(v, curturn) == FALSE
\* "Tried to jump to branch ..., which starts at turn ..."
SetBranchBeforeFork(v, curturn) ==
    v # "trunk" /\ v \in DOMAIN branches /\ curturn < branches[v].turn_start

\* the fork point recorded for a branch created by _set_branch
SetBranchFork(curturn, curtick) == <<curturn, curtick>>

SetBranch(v) ==
    /\ Call("set_branch", v, 0)
    /\ LET curbranch == obranch
           curturn == oturn
           curtick == otick
           branch_is_new == v \notin DOMAIN branches
           fork == SetBranchFork(curturn, curtick)
           brs == IF branch_is_new
                  THEN Put(branches, v,
                           BranchRec(curbranch, fork[1], fork[2], fork[1], fork[2]))
                  ELSE branches
           bp == IF branch_is_new
                 THEN upd_branch_parentage(branch_parents, brs, v, curbranch)
                 ELSE branch_parents
           te == IF branch_is_new THEN Put(turn_end, <<v, curturn>>, curtick) ELSE turn_end
           tep0 == IF branch_is_new
                   THEN Put(turn_end_plan, <<v, curturn>>, curtick)
                   ELSE DTouch(turn_end_plan, <<v, curturn>>)
           tick == tep0[<<v, curturn>>]
           bplans == IF curbranch \in DOMAIN branches_plans
                     THEN branches_plans
                     ELSE Put(branches_plans, curbranch, {})
           copied == CopyPlans([last_plan |-> last_plan, plans |-> plans,
                                plan_ticks |-> plan_ticks, time_plan |-> time_plan,
                                tep |-> tep0, rows |-> rows, db |-> db],
                               bplans[curbranch], curbranch, v, curturn, curtick)
       IN IF SetBranchPlanning
          THEN Raise("ValueError")
          ELSE IF curbranch = v
          THEN /\ turn_end_plan' = DTouch(turn_end_plan, <<curbranch, curturn>>)
               /\ otick' = DGet(turn_end_plan, <<curbranch, curturn>>)
               /\ err' = "none" /\ ret' = << >>
               /\ UNCHANGED <<obranch, oturn, branches, branch_parents, turn_end,
                              cacheVars, modeVars, planVars, issued>>
          ELSE IF SetBranchBeforeFork(v, curturn)
          THEN Raise("ValueError")
          ELSE /\ branches' = brs
               /\ branch_parents' = bp
               /\ turn_end' = te
               /\ obranch' = v
               /\ otick' = tick
               /\ UNCHANGED <<oturn, modeVars, issued>>
               /\ IF branch_is_new
                  THEN /\ last_plan' = copied.last_plan
                       /\ plans' = copied.plans
                       /\ plan_ticks' = copied.plan_ticks
                       /\ time_plan' = copied.time_plan
                       /\ turn_end_plan' = copied.tep
                       /\ rows' = copied.rows
                       /\ db' = copied.db
                       /\ branches_plans' = bplans
                       /\ loaded' = Put(loaded, v, <<curturn, tick, curturn, tick>>)
                       /\ err' = "none" /\ ret' = << >>
                       /\ UNCHANGED <<keyframes_times, kfc, kfdb, new_keyframes>>
                  ELSE /\ turn_end_plan' = tep0
                       /\ \E r \in (IF v \notin DOMAIN loaded
                                    THEN LoadAtAny(v, curturn, tick)
                                    ELSE LET w == loaded[v]
                                         IN IF After(curturn, tick, w[3], w[4])
                                               \/ Before(curturn, tick, w[1], w[2])
                                            THEN LoadAtAny(v, curturn, tick)
                                            ELSE NoLoad(loaded)) : Paged(r)
                       /\ UNCHANGED planVars

\* ------------------------------------------- TimeSignalDescriptor.__set__
\* "enforce the arrow of time, if it's in effect"
TimeSetArrow(branch_now, turn_now) ==
    /\ forward /\ ~planning
    /\ \/ branch_now # obranch
       \/ turn_now < oturn
       \/ turn_now > oturn + 1

\* the fork point recorded for a branch created by the time setter
TimeSetFork(turn_now, tick_then) == <<turn_now, tick_then>>

\* sig.send(e, branch_then=..., tick_now=...): what the receivers are called
\* with, and the cursor they find on the engine
TimeSentStale(branch_then, turn_then, tick_then, branch_now, turn_now, tick_now) ==
    [branch_then |-> branch_then, turn_then |-> turn_then, tick_then |-> tick_then,
     branch_now |-> branch_now, turn_now |-> turn_now, tick_now |-> tick_then,
     cursor |-> <<branch_now, turn_now, tick_now>>]

TimeSent(branch_then, turn_then, tick_then, branch_now, turn_now, tick_now) ==
    [branch_then |-> branch_then, turn_then |-> turn_then, tick_then |-> tick_then,
     branch_now |-> branch_now, turn_now |-> turn_now, tick_now |-> tick_now,
     cursor |-> <<branch_now, turn_now, tick_now>>]

TimeSet(branch_now, turn_now) ==
    /\ op' = "set_time" /\ arg_b' = branch_now /\ arg_n' = turn_now
    /\ steps' = steps + 1
    /\ UNCHANGED <<deltaVars, graphVars, no_kc, windowVars, turns_dump>>
    /\ LET branch_then == obranch
           tick_then == otick
           val == <<branch_now, turn_now>>
           known == branch_now \in DOMAIN branches
           \* e._turn_end_plan.setdefault((branch_now, turn_now), tick_then)
           tep0 == IF known /\ val \notin DOMAIN turn_end_plan
                   THEN Put(turn_end_plan, val, tick_then)
                   ELSE turn_end_plan
           tick_now == IF known THEN tep0[val] ELSE tick_then
           fork == TimeSetFork(turn_now, tick_then)
           brs == IF known
                  THEN LET br == branches[branch_now]
                       IN IF ~planning /\ After(turn_now, tick_now, br.turn_end, br.tick_end)
                          THEN Put(branches, branch_now,
                                   BranchRec(br.parent, br.turn_start, br.tick_start,
                                             turn_now, tick_now))
                          ELSE branches
                  ELSE Put(branches, branch_now,
                           BranchRec(branch_then, fork[1], fork[2], fork[1], fork[2]))
           te0 == DTouch(turn_end, val)
           te == IF planning THEN turn_end
                 ELSE IF tick_now > te0[val] THEN Put(te0, val, tick_now) ELSE te0
       IN IF <<obranch, oturn>> = val
          THEN /\ err' = "none" /\ ret' = << >>
               /\ sent' = << >>
               /\ UNCHANGED <<timeVars, tableVars, cacheVars, modeVars, planVars, issued>>
          ELSE IF TimeSetArrow(branch_now, turn_now)
          THEN Raise("TimeError") /\ sent' = << >>
          ELSE IF known /\ (turn_now < branches[branch_now].turn_start
                            \/ (turn_now = branches[branch_now].turn_start
                                /\ tick_now < branches[branch_now].tick_start))
          THEN /\ err' = "ValueError" /\ ret' = << >>
               /\ sent' = << >>
               /\ turn_end_plan' = tep0
               /\ UNCHANGED <<timeVars, branches, branch_parents, turn_end,
                              cacheVars, modeVars, planVars, issued>>
          ELSE /\ branches' = brs
               /\ obranch' = branch_now /\ oturn' = turn_now /\ otick' = tick_now
               /\ turn_end' = te
               /\ turn_end_plan' = Put(tep0, val, tick_now)
               /\ err' = "none" /\ ret' = << >>
               /\ sent' = <<TimeSent(branch_then, oturn, tick_then,
                                     branch_now, turn_now, tick_now)>>
               /\ UNCHANGED <<branch_parents, cacheVars, modeVars, planVars, issued>>

\* ------------------------------------------------------ PlanningContext
\* a plan() that never notices the open context
AlreadyPlanningNever == FALSE
\* "Already planning"
AlreadyPlanning == planning

PlanEnter ==
    /\ Call("plan_enter", "", 0)
    /\ IF AlreadyPlanning
       THEN Raise("ValueError")
       ELSE LET myid == last_plan + 1
            IN /\ planning' = TRUE
               /\ last_plan' = myid
               /\ ctx' = Append(ctx, [kind |-> "plan", forward |-> forward])
               /\ forward' = FALSE
               /\ plans' = Put(plans, myid, <<obranch, oturn, otick>>)
               /\ branches_plans' =
                    Put(branches_plans, obranch,
                        (IF obranch \in DOMAIN branches_plans
                         THEN branches_plans[obranch] ELSE {}) \cup {myid})
               /\ err' = "none" /\ ret' = << >>
               /\ UNCHANGED <<timeVars, tableVars, cacheVars, plan_ticks, time_plan, issued>>

\* the with-block of the innermost plan() ends
PlanExit ==
    /\ Call("plan_exit", "", 0)
    /\ ctx # << >> /\ ctx[Len(ctx)].kind = "plan"
    /\ planning' = FALSE
    /\ forward' = IF ctx[Len(ctx)].forward THEN TRUE ELSE forward
    /\ ctx' = SubSeq(ctx, 1, Len(ctx) - 1)
    /\ err' = "none" /\ ret' = << >>
    /\ UNCHANGED <<timeVars, tableVars, cacheVars, planVars, issued>>

\* ------------------------------------------------------- ORM.advancing
AdvancingEnter ==
    /\ Call("advancing_enter", "", 0)
    /\ IF forward
       THEN Raise("ValueError")
       ELSE /\ forward' = TRUE
            /\ ctx' = Append(ctx, [kind |-> "advancing", forward |-> FALSE])
            /\ err' = "none" /\ ret' = << >>
            /\ UNCHANGED <<timeVars, tableVars, cacheVars, planning, planVars, issued>>

\* the with-block of the innermost advancing() ends normally
AdvancingExit ==
    /\ Call("advancing_exit", "", 0)
    /\ ctx # << >> /\ ctx[Len(ctx)].kind = "advancing"
    /\ forward' = FALSE
    /\ ctx' = SubSeq(ctx, 1, Len(ctx) - 1)
    /\ err' = "none" /\ ret' = << >>
    /\ UNCHANGED <<timeVars, tableVars, cacheVars, planning, planVars, issued>>

\* --------------------------------------------------------- delete_plan
\* the (turn, tick) of the plan at or after the cursor, in iteration order
ToDelete(items, turn, tick) ==
    SelectSeq(Flatten(items),
              LAMBDA c : (c[1] = turn /\ c[2] >= tick) \/ c[1] > turn)

\* list.remove(x): the first occurrence goes
RemoveFirst(q, x) ==
    LET i == CHOOSE n \in DOMAIN q : q[n] = x /\ \A m \in 1..(n - 1) : q[m] # x
    IN SubSeq(q, 1, i - 1) \o SubSeq(q, i + 1, Len(q))

\* plan_ticks[trn].remove(tck); if not plan_ticks[trn]: del plan_ticks[trn]
PlanRemove(items, trn, tck) ==
    LET i == PlanItem(items, trn)
        left == RemoveFirst(items[i].ticks, tck)
    IN IF left = << >>
       THEN SubSeq(items, 1, i - 1) \o SubSeq(items, i + 1, Len(items))
       ELSE [items EXCEPT ![i].ticks = left]

RECURSIVE DeleteTimes(_, _, _, _)
DeleteTimes(st, plan, branch, times) ==
    IF times = << >> \/ st.err # "none" THEN st
    ELSE LET trn == Head(times)[1]
             tck == Head(times)[2]
             c == <<branch, trn, tck>>
             st1 == [st EXCEPT
                        !.rows = IF WhereCached(@, c) THEN Del(@, c) ELSE @,
                        !.db = IF WhereCached(st.rows, c) THEN Del(@, c) ELSE @,
                        !.plan_ticks = Put(@, plan, PlanRemove(@[plan], trn, tck))]
         IN IF c \in DOMAIN st.time_plan
            THEN DeleteTimes([st1 EXCEPT !.time_plan = Del(@, c)], plan, branch, Tail(times))
            ELSE [st1 EXCEPT !.err = "KeyError"]

DeletePlan(plan) ==
    /\ Call("delete_plan", "", plan)
    /\ LET done == DeleteTimes([rows |-> rows, db |-> db,
                                plan_ticks |-> Put(plan_ticks, plan,
                                                   PlanTicksOf(plan_ticks, plan)),
                                time_plan |-> time_plan, err |-> "none"],
                               plan, obranch,
                               ToDelete(PlanTicksOf(plan_ticks, plan), oturn, otick))
       IN /\ rows' = done.rows
          /\ db' = done.db
          /\ plan_ticks' = done.plan_ticks
          /\ time_plan' = done.time_plan
          /\ err' = done.err /\ ret' = << >>
          /\ UNCHANGED <<timeVars, tableVars, loaded, keyframes_times, kfc, kfdb,
                         new_keyframes, modeVars, last_plan, plans, branches_plans,
                         issued>>

Next ==
    /\ steps < MaxSteps
    /\ \/ \E v \in Turns : SetTurn(v)
       \/ \E v \in Ticks : SetTick(v)
       \/ \E v \in BranchNames : SetBranch(v)
       \/ \E b \in BranchNames, t \in Turns : TimeSet(b, t)
       \/ \E val \in Values : Write(val)
       \/ PlanEnter
       \/ PlanExit
       \/ AdvancingEnter
       \/ AdvancingExit
       \/ \E p \in DOMAIN plans : DeletePlan(p)

Spec == Init /\ [][Next]_vars

\* ------------------------------------------------------------- reading
\* Cache.retrieve along one branch: the value of the latest row at or before
\* (turn, tick), NoValue when the branch has none
RetrieveHere(rs, branch, turn, tick) ==
    LET here == {c \in DOMAIN rs : c[1] = branch /\ AtOrBefore(c[2], c[3], turn, tick)}
    IN IF here = {} THEN NoValue
       ELSE rs[CHOOSE c \in here : \A d \in here : AtOrBefore(d[2], d[3], c[2], c[3])]

\* Cache.retrieve: the first branch of the lineage that has a value
RECURSIVE RetrievePath(_, _)
RetrievePath(rs, path) ==
    IF path = << >> THEN NoValue
    ELSE LET v == RetrieveHere(rs, Head(path)[1], Head(path)[2], Head(path)[3])
         IN IF v # NoValue THEN v ELSE RetrievePath(rs, Tail(path))
Retrieve(rs, brs, branch, turn, tick) ==
    RetrievePath(rs, iter_parent_btt(brs, branch, turn, tick))

\* the branches a branch descends from
Ancestors(brs, branch) ==
    {c[1] : c \in SeqRange(Tail(iter_parent_btt(brs, branch, 0, 0)))}

\* ------------------------------------------------------------ keyframes
\* the graph the engine holds; its one node attribute is what rows record
GraphNames == {"g"}

\* the latest keyframe of a branch at or before (turn, tick), or NoKeyframe
KeyframeHere(kf, branch, turn, tick) ==
    LET here == {c \in DOMAIN kf : c[1] = branch /\ AtOrBefore(c[2], c[3], turn, tick)}
    IN IF here = {} THEN NoKeyframe
       ELSE CHOOSE c \in here : \A d \in here : AtOrBefore(d[2], d[3], c[2], c[3])

\* the latest row of a branch at or before (turn, tick), or NoKeyframe
RowHere(rs, branch, turn, tick) ==
    LET here == {c \in DOMAIN rs : c[1] = branch /\ AtOrBefore(c[2], c[3], turn, tick)}
    IN IF here = {} THEN NoKeyframe
       ELSE CHOOSE c \in here : \A d \in here : AtOrBefore(d[2], d[3], c[2], c[3])

\* Cache.retrieve with the keyframe index: on each branch of the lineage the
\* most recent keyframe at or before the coordinate bounds the scan, and a row
\* between the keyframe and the coordinate wins over it
RECURSIVE RetrieveKfPath(_, _, _)
RetrieveKfPath(rs, kf, path) ==
    IF path = << >> THEN NoValue
    ELSE LET k == KeyframeHere(kf, Head(path)[1], Head(path)[2], Head(path)[3])
             r == RowHere(rs, Head(path)[1], Head(path)[2], Head(path)[3])
         IN IF r # NoKeyframe /\ (k = NoKeyframe \/ AtOrBefore(k[2], k[3], r[2], r[3]))
            THEN rs[r]
            ELSE IF k # NoKeyframe THEN kf[k]
            ELSE RetrieveKfPath(rs, kf, Tail(path))
RetrieveKf(rs, kf, brs, branch, turn, tick) ==
    RetrieveKfPath(rs, kf, iter_parent_btt(brs, branch, turn, tick))

\* graph._nodes_state(): what the graph reads at the cursor
NodesState == RetrieveKf(rows, kfc, branches, obranch, oturn, otick)

\* snap_keyframe
SnapKeyframe ==
    /\ Call("snap_keyframe", obranch, oturn)
    /\ GraphNames # {}
    /\ kfc' = Put(kfc, <<obranch, oturn, otick>>, NodesState)
    /\ new_keyframes' = Put(new_keyframes, <<obranch, oturn, otick>>, NodesState)
    /\ keyframes_times' = keyframes_times \cup {<<obranch, oturn, otick>>}
    /\ err' = "none" /\ ret' = << >>
    /\ UNCHANGED <<timeVars, tableVars, loaded, rows, db, kfdb, modeVars, planVars, issued>>

\* turn_end[branch] in commit's loop over _turn_end_plan: the table is a
\* defaultdict keyed by (branch, turn), and the lookup by the branch alone
\* yields the default and leaves an entry for it; <<branch>> is that key
CommitEndTick(te, branch) == DGet(te, <<branch>>)

\* commit: set_turn for every (branch, turn) of _turn_end_plan, then
\* query.keyframes_insert_many(_new_keyframes); _new_keyframes = []
Commit ==
    /\ op' = "commit" /\ arg_b' = obranch /\ arg_n' = oturn
    /\ steps' = steps + 1
    /\ UNCHANGED <<deltaVars, graphVars, no_kc, windowVars, sent>>
    /\ turns_dump' = [k \in DOMAIN turns_dump \cup DOMAIN turn_end_plan |->
                         IF k \in DOMAIN turn_end_plan
                         THEN <<CommitEndTick(turn_end, k[1]), turn_end_plan[k]>>
                         ELSE turns_dump[k]]
    /\ turn_end' = [k \in DOMAIN turn_end \cup {<<c[1]>> : c \in DOMAIN turn_end_plan} |->
                       IF k \in DOMAIN turn_end THEN turn_end[k] ELSE 0]
    /\ kfdb' = [c \in DOMAIN kfdb \cup DOMAIN new_keyframes |->
                   IF c \in DOMAIN new_keyframes THEN new_keyframes[c] ELSE kfdb[c]]
    /\ new_keyframes' = [c \in {} |-> NoValue]
    /\ err' = "none" /\ ret' = << >>
    /\ UNCHANGED <<timeVars, branches, branch_parents, turn_end_plan,
                   loaded, keyframes_times, rows, db, kfc,
                   modeVars, planVars, issued>>

\* --------------------------------------------------------------- unload
\* past_branch in kfd
InKfd(b) == \E c \in keyframes_times : c[1] = b

\* one keyframe of the branch against the window being narrowed
NarrowStep(w, c, turn, tick) ==
    IF loaded_keep_test(c[2], c[3], w[1], w[2], w[3], w[4])
    THEN IF Before(c[2], c[3], turn, tick) /\ After(c[2], c[3], w[1], w[2])
         THEN <<c[2], c[3], w[3], w[4]>>
         ELSE IF AtOrBefore(turn, tick, c[2], c[3]) /\ Before(c[2], c[3], w[3], w[4])
         THEN <<w[1], w[2], c[2], c[3]>>
         ELSE w
    ELSE w

\* the loop over kfd[past_branch]: the window is narrowed to the keyframes
\* nearest the cursor's (turn, tick)
RECURSIVE NarrowWindow(_, _, _, _)
NarrowWindow(w, cs, turn, tick) ==
    IF cs = {} THEN w
    ELSE LET c == CHOOSE x \in cs : \A y \in cs : AtOrBefore(x[2], x[3], y[2], y[3])
         IN NarrowWindow(NarrowStep(w, c, turn, tick), cs \ {c}, turn, tick)

\* to_keep[past_branch] for the branch whose keyframes bound the window
KeptWindowEarly(w, past_turn, past_tick) == <<w[1], w[2], w[1], w[2]>>

KeptWindow(w, past_turn, past_tick) == <<w[1], w[2], past_turn, past_tick>>

\* the loop over _iter_parent_btt that fills to_keep
RECURSIVE ToKeep(_, _, _, _)
ToKeep(path, keep, turn, tick) ==
    IF path = << >> THEN [keep |-> keep, err |-> "none"]
    ELSE LET pb == Head(path)[1]
             pt == Head(path)[2]
             pk == Head(path)[3]
         IN IF pb \notin DOMAIN loaded THEN ToKeep(Tail(path), keep, turn, tick)
            ELSE IF InKfd(pb)
            THEN LET w == NarrowWindow(loaded[pb], {c \in keyframes_times : c[1] = pb},
                                       turn, tick)
                 IN IF loaded_keep_test(pt, pk, w[1], w[2], w[3], w[4])
                    THEN [keep |-> Put(keep, pb, KeptWindow(w, pt, pk)), err |-> "none"]
                    ELSE [keep |-> keep, err |-> "AssertionError"]
            ELSE ToKeep(Tail(path), Put(keep, pb, loaded[pb]), turn, tick)

\* Cache.truncate on the kept branches and Cache.remove_branch on the other
\* loaded branches: the entries of d that stay resident
Truncated(d, keep) ==
    LET stays(c) == IF c[1] \in DOMAIN keep
                    THEN loaded_keep_test(c[2], c[3], keep[c[1]][1], keep[c[1]][2],
                                          keep[c[1]][3], keep[c[1]][4])
                    ELSE c[1] \notin DOMAIN loaded
    IN [c \in {x \in DOMAIN d : stays(x)} |-> d[c]]

\* unload
Unload ==
    /\ Call("unload", obranch, oturn)
    /\ UNCHANGED <<timeVars, tableVars, keyframes_times, db, kfdb, new_keyframes,
                   modeVars, planVars, issued>>
    /\ IF keyframes_times = {}
       THEN err' = "none" /\ ret' = << >> /\ UNCHANGED <<loaded, rows, kfc>>
       ELSE LET k == ToKeep(iter_parent_btt(branches, obranch, oturn, otick),
                            [b \in {} |-> << >>], oturn, otick)
            IN IF k.err # "none"
               THEN err' = k.err /\ ret' = << >> /\ UNCHANGED <<loaded, rows, kfc>>
               ELSE IF DOMAIN k.keep = {}
               THEN err' = "none" /\ ret' = <<"warning">> /\ UNCHANGED <<loaded, rows, kfc>>
               ELSE /\ loaded' = k.keep
                    /\ rows' = Truncated(rows, k.keep)
                    /\ kfc' = Truncated(kfc, k.keep)
                    /\ err' = "none" /\ ret' = <<"unloaded">>

\* _load_at(*self._btt()), the call _init_load makes; ret is what it picked
\* as past and future keyframe
LoadAtCursor ==
    /\ Call("load_at", obranch, oturn)
    /\ \E r \in LoadAtAny(obranch, oturn, otick) :
          /\ loaded' = r.loaded /\ rows' = r.rows /\ kfc' = r.kfc
          /\ err' = r.err /\ ret' = <<r.past, r.future>>
    /\ UNCHANGED <<timeVars, tableVars, keyframes_times, db, kfdb, new_keyframes,
                   modeVars, planVars, issued>>

\* the engine with its keyframe operations, planning and modes left aside
MaxLoadSteps == 6
MaxLoadTurn == 1
MaxLoadTick == 1
LoadBranches == {"trunk", "b1"}
LoadTurns == 0..MaxLoadTurn
LoadTicks == 0..MaxLoadTick
NextLoad ==
    /\ steps < MaxLoadSteps
    /\ \/ \E v \in LoadTurns : SetTurn(v)
       \/ \E v \in LoadTicks : SetTick(v)
       \/ \E v \in LoadBranches : SetBranch(v)
       \/ \E b \in LoadBranches, t \in LoadTurns : TimeSet(b, t)
       \/ \E val \in Values : Write(val)
       \/ SnapKeyframe
       \/ Commit
       \/ Unload
       \/ LoadAtCursor

SpecLoad == Init /\ [][NextLoad]_vars

\* --------------------------------------------------------- get_delta
\* the nodes of the graph whose changes the delta engine reports
DeltaNodes == {"n1", "n2"}
\* the edges (orig, dest, idx) likewise
DeltaEdges == {<<"n1", "n2", 0>>}
MaxDeltaSteps == 5
MaxDeltaTurn == 1
MaxDeltaTick == 2

\* the value most recently stored for a node, or the default
LastStored(settings, node, default) ==
    LET idx == {i \in DOMAIN settings : settings[i].node = node}
    IN IF idx = {} THEN default
       ELSE settings[CHOOSE i \in idx : \A j \in idx : j <= i].val

\* Cache.store appends the write to settings (the new value) and to
\* presettings (the value it replaces)
Stored(settings, node, val, default) ==
    Append(settings, [turn |-> dnow[1], tick |-> dnow[2] + 1, node |-> node,
                      val |-> val, prev |-> LastStored(settings, node, default)])

DeltaCall(name) ==
    /\ op' = name /\ steps' = steps + 1
    /\ UNCHANGED <<engineVars, arg_b, arg_n, err, ret, issued,
                   graphVars, no_kc, windowVars, sent, turns_dump>>

\* a node is created or deleted at the next tick
StoreNode(node, exists) ==
    /\ DeltaCall("store_node")
    /\ dnow[2] < MaxDeltaTick
    /\ exists \/ LastStored(nodes_settings, node, FALSE)
    /\ nodes_settings' = Stored(nodes_settings, node, exists, FALSE)
    /\ dnow' = <<dnow[1], dnow[2] + 1>>
    /\ UNCHANGED <<node_val_settings, edges_settings, edge_val_settings, dargs, delta>>

\* an attribute of an existing node is set at the next tick
StoreNodeVal(node, val) ==
    /\ DeltaCall("store_node_val")
    /\ dnow[2] < MaxDeltaTick
    /\ LastStored(nodes_settings, node, FALSE)
    /\ node_val_settings' = Stored(node_val_settings, node, val, NoValue)
    /\ dnow' = <<dnow[1], dnow[2] + 1>>
    /\ UNCHANGED <<nodes_settings, edges_settings, edge_val_settings, dargs, delta>>

\* an edge is created or deleted at the next tick
StoreEdge(edge, exists) ==
    /\ DeltaCall("store_edge")
    /\ dnow[2] < MaxDeltaTick
    /\ exists \/ LastStored(edges_settings, edge, FALSE)
    /\ edges_settings' = Stored(edges_settings, edge, exists, FALSE)
    /\ dnow' = <<dnow[1], dnow[2] + 1>>
    /\ UNCHANGED <<nodes_settings, node_val_settings, edge_val_settings, dargs, delta>>

\* an attribute of an existing edge is set at the next tick
StoreEdgeVal(edge, val) ==
    /\ DeltaCall("store_edge_val")
    /\ dnow[2] < MaxDeltaTick
    /\ LastStored(edges_settings, edge, FALSE)
    /\ edge_val_settings' = Stored(edge_val_settings, edge, val, NoValue)
    /\ dnow' = <<dnow[1], dnow[2] + 1>>
    /\ UNCHANGED <<nodes_settings, node_val_settings, edges_settings, dargs, delta>>

\* the caller moves on to the next turn
NextTurn ==
    /\ DeltaCall("next_turn")
    /\ dnow[1] < MaxDeltaTurn
    /\ dnow' = <<dnow[1] + 1, 0>>
    /\ UNCHANGED <<nodes_settings, node_val_settings, edges_settings, edge_val_settings,
                   dargs, delta>>

Reverse(q) == [i \in 1..Len(q) |-> q[Len(q) + 1 - i]]

\* WindowDict slice [a:b] of one turn of a settings list: the entries with
\* a <= tick < b in ascending order; when a > b those with a >= tick > b in
\* descending order; when a = b the entry at a
TurnSlice(settings, turn, a, b) ==
    LET keep(e) == /\ e.turn = turn
                   /\ IF a < b THEN a <= e.tick /\ e.tick < b
                      ELSE IF a > b THEN b < e.tick /\ e.tick <= a
                      ELSE e.tick = a
        asc == SelectSeq(settings, keep)
    IN IF a <= b THEN asc ELSE Reverse(asc)

\* update_window: every change after (turn_from, tick_from) up to
\* (turn_to, tick_to), oldest first
update_window(turn_from, tick_from, turn_to, tick_to, settings) ==
    LET keep(e) == /\ After(e.turn, e.tick, turn_from, tick_from)
                   /\ AtOrBefore(e.turn, e.tick, turn_to, tick_to)
    IN SelectSeq(settings, keep)

\* update_backward_window: every change at or before (turn_from, tick_from)
\* and after (turn_to, tick_to), newest first
update_backward_window(turn_from, tick_from, turn_to, tick_to, settings) ==
    LET keep(e) == /\ AtOrBefore(e.turn, e.tick, turn_from, tick_from)
                   /\ After(e.turn, e.tick, turn_to, tick_to)
    IN Reverse(SelectSeq(settings, keep))

\* what a scan hands the updater: the new value of an entry when scanning
\* settings, the replaced value when scanning presettings
Scanned(e, fwd) == IF fwd THEN e.val ELSE e.prev

\* setnode
setnode(d, node, exists) == [d EXCEPT !.nodes = Put(@, node, exists)]

\* the test of setnodeval: the delta says the node was deleted
NodeDeletedNever(d, node) == FALSE

NodeDeleted(d, node) == node \in DOMAIN d.nodes /\ ~d.nodes[node]

\* setnodeval
setnodeval(d, node, value) ==
    IF NodeDeleted(d, node) THEN d
    ELSE [d EXCEPT !.node_val = Put(@, node, value)]

\* the updater applied to each scanned entry in turn
RECURSIVE UpdateNodes(_, _, _)
UpdateNodes(d, es, fwd) ==
    IF es = << >> THEN d
    ELSE UpdateNodes(setnode(d, Head(es).node, Scanned(Head(es), fwd)),
                     Tail(es), fwd)
RECURSIVE UpdateNodeVals(_, _, _)
UpdateNodeVals(d, es, fwd) ==
    IF es = << >> THEN d
    ELSE UpdateNodeVals(setnodeval(d, Head(es).node, Scanned(Head(es), fwd)),
                        Tail(es), fwd)

\* the node_val loop of get_turn_delta, which spells the same test out
RECURSIVE TurnNodeVals(_, _, _)
TurnNodeVals(d, es, fwd) ==
    IF es = << >> THEN d
    ELSE LET node == Head(es).node
             skip == node \in DOMAIN d.nodes /\ ~d.nodes[node]
         IN TurnNodeVals(IF skip THEN d
                         ELSE [d EXCEPT !.node_val = Put(@, node, Scanned(Head(es), fwd))],
                         Tail(es), fwd)

\* the key of an edge in delta['edges'] and delta['edge_val']: orig, dest and,
\* in a multigraph, idx
EdgeKey(multi, edge) == IF multi THEN edge ELSE <<edge[1], edge[2]>>

\* setedge
setedge(d, multi, edge, exists) ==
    [d EXCEPT !.edges = Put(@, EdgeKey(multi, edge), exists)]

\* the test of setedgeval: the delta says the edge was deleted
EdgeDeleted(d, multi, edge) ==
    EdgeKey(multi, edge) \in DOMAIN d.edges /\ ~d.edges[EdgeKey(multi, edge)]

\* setedgeval
setedgeval(d, multi, edge, value) ==
    IF EdgeDeleted(d, multi, edge) THEN d
    ELSE [d EXCEPT !.edge_val = Put(@, EdgeKey(multi, edge), value)]

RECURSIVE UpdateEdges(_, _, _, _)
UpdateEdges(d, multi, es, fwd) ==
    IF es = << >> THEN d
    ELSE UpdateEdges(setedge(d, multi, Head(es).node, Scanned(Head(es), fwd)),
                     multi, Tail(es), fwd)
RECURSIVE UpdateEdgeVals(_, _, _, _)
UpdateEdgeVals(d, multi, es, fwd) ==
    IF es = << >> THEN d
    ELSE UpdateEdgeVals(setedgeval(d, multi, Head(es).node, Scanned(Head(es), fwd)),
                        multi, Tail(es), fwd)

\* the edges loop of get_turn_delta: an edge the delta already holds as
\* deleted is passed over
RECURSIVE TurnEdges(_, _, _, _)
TurnEdges(d, multi, es, fwd) ==
    IF es = << >> THEN d
    ELSE TurnEdges(IF EdgeDeleted(d, multi, Head(es).node) THEN d
                   ELSE setedge(d, multi, Head(es).node, Scanned(Head(es), fwd)),
                   multi, Tail(es), fwd)

\* the edge_val loop of get_turn_delta: every scanned entry is written
RECURSIVE TurnEdgeVals(_, _, _, _)
TurnEdgeVals(d, multi, es, fwd) ==
    IF es = << >> THEN d
    ELSE TurnEdgeVals([d EXCEPT !.edge_val = Put(@, EdgeKey(multi, Head(es).node),
                                                 Scanned(Head(es), fwd))],
                      multi, Tail(es), fwd)

EmptyDelta == [nodes |-> << >>, node_val |-> << >>, edges |-> << >>, edge_val |-> << >>]

\* get_turn_delta from the line after its defaults are filled in: the scan of
\* one turn's settings (tick_from < tick_to) or presettings
turn_delta(multi, turn, tick_from, tick_to) ==
    LET fwd == tick_from < tick_to
        upto == IF fwd THEN tick_to + 1 ELSE tick_to
        d1 == UpdateNodes(EmptyDelta, TurnSlice(nodes_settings, turn, tick_from, upto), fwd)
        d2 == TurnNodeVals(d1, TurnSlice(node_val_settings, turn, tick_from, upto), fwd)
        d3 == TurnEdges(d2, multi, TurnSlice(edges_settings, turn, tick_from, upto), fwd)
    IN TurnEdgeVals(d3, multi, TurnSlice(edge_val_settings, turn, tick_from, upto), fwd)

\* get_turn_delta(branch, turn, tick_from, tick_to); a turn or tick_to of 0
\* is falsy and replaced by the caller's current turn or tick
get_turn_delta(multi, turn_arg, tick_from, tick_to_arg) ==
    turn_delta(multi, IF turn_arg = 0 THEN dnow[1] ELSE turn_arg, tick_from,
               IF tick_to_arg = 0 THEN dnow[2] ELSE tick_to_arg)

\* the updaters of get_delta applied to the scanned entries of each cache
Updated(multi, ns, nvs, es, evs, fwd) ==
    LET d1 == UpdateNodes(EmptyDelta, ns, fwd)
        d2 == UpdateNodeVals(d1, nvs, fwd)
        d3 == UpdateEdges(d2, multi, es, fwd)
    IN UpdateEdgeVals(d3, multi, evs, fwd)

\* get_delta(branch, turn_from, tick_from, turn_to, tick_to) on a graph that
\* is a multigraph or not
get_delta(multi, turn_from, tick_from, turn_to, tick_to) ==
    IF turn_from = turn_to THEN get_turn_delta(multi, turn_from, tick_from, tick_to)
    ELSE IF turn_to < turn_from
    THEN LET scan(settings) == update_backward_window(turn_from, tick_from, turn_to,
                                                      tick_to, settings)
         IN Updated(multi, scan(nodes_settings), scan(node_val_settings),
                    scan(edges_settings), scan(edge_val_settings), FALSE)
    ELSE LET scan(settings) == update_window(turn_from, tick_from, turn_to, tick_to,
                                             settings)
         IN Updated(multi, scan(nodes_settings), scan(node_val_settings),
                    scan(edges_settings), scan(edge_val_settings), TRUE)

GetDelta(multi, turn_from, tick_from, turn_to, tick_to) ==
    /\ DeltaCall("get_delta")
    /\ dargs' = <<turn_from, tick_from, turn_to, tick_to, multi>>
    /\ delta' = get_delta(multi, turn_from, tick_from, turn_to, tick_to)
    /\ UNCHANGED <<nodes_settings, node_val_settings, edges_settings, edge_val_settings,
                   dnow>>

NextDelta ==
    /\ steps < MaxDeltaSteps
    /\ \/ \E n \in DeltaNodes, e \in BOOLEAN : StoreNode(n, e)
       \/ \E n \in DeltaNodes, v \in Values : StoreNodeVal(n, v)
       \/ \E e \in DeltaEdges, x \in BOOLEAN : StoreEdge(e, x)
       \/ \E e \in DeltaEdges, v \in Values : StoreEdgeVal(e, v)
       \/ NextTurn
       \/ \E m \in BOOLEAN, t1 \in 0..MaxDeltaTurn, k1 \in 0..MaxDeltaTick,
             t2 \in 0..MaxDeltaTurn, k2 \in 0..MaxDeltaTick : GetDelta(m, t1, k1, t2, k2)

SpecDelta == Init /\ [][NextDelta]_vars

\* Cache.retrieve on the delta engine's caches: the value in force at
\* (turn, tick), or the default
RetrieveAt(settings, node, turn, tick, default) ==
    LET keep(e) == e.node = node /\ AtOrBefore(e.turn, e.tick, turn, tick)
        past == SelectSeq(settings, keep)
    IN IF past = << >> THEN default ELSE past[Len(past)].val

\* ----------------------------------------------------------- new_digraph
\* the names new_digraph is called with; "global" is in illegal_graph_names
NewGraphNames == {"g1", "g2", "global"}
illegal_graph_names == {"global"}

\* _nudge_loaded
nudge_loaded(ld, branch, turn, tick) ==
    IF branch \in DOMAIN ld
    THEN LET w == ld[branch]
         IN IF Before(turn, tick, w[1], w[2])
            THEN Put(ld, branch, <<turn, tick, w[3], w[4]>>)
            ELSE IF After(turn, tick, w[3], w[4])
            THEN Put(ld, branch, <<w[1], w[2], turn, tick>>)
            ELSE ld
    ELSE Put(ld, branch, <<turn, tick, turn, tick>>)

\* the data new_digraph is given: none, a graph (or dict, or triple of
\* dicts), or something that is none of these
GraphData == {"none", "graph", "malformed"}

\* new_digraph(name, data) with _init_graph: with data the new graph is
\* snapped and queued, and every other graph without a queued keyframe at the
\* cursor is snapped, queued and entered in the keyframe index; malformed
\* data is found out after the graph was registered and the window nudged
NewDigraph(name, given) ==
    /\ op' = "new_digraph" /\ arg_b' = name
    /\ arg_n' = (IF given = "none" THEN 0 ELSE IF given = "graph" THEN 1 ELSE 2)
    /\ steps' = steps + 1
    /\ ret' = << >>
    /\ UNCHANGED <<timeVars, tableVars, rows, db, kfc, kfdb, new_keyframes,
                   modeVars, planVars, issued, deltaVars, no_kc, windowVars, sent,
                   turns_dump>>
    /\ IF name \in graphs \/ name \in illegal_graph_names
       THEN /\ err' = "GraphNameError"
            /\ UNCHANGED <<loaded, keyframes_times, graphVars>>
       ELSE IF given = "malformed"
       THEN /\ err' = "ValueError"
            /\ graphs' = graphs \cup {name}
            /\ loaded' = nudge_loaded(loaded, obranch, oturn, otick)
            /\ UNCHANGED <<keyframes_times, keyframes_list, graph_keyframes,
                           graph_new_keyframes>>
       ELSE LET data == given = "graph"
                others == IF data
                          THEN {g \in graphs \ {name} :
                                  <<g, obranch, oturn, otick>> \notin graph_new_keyframes}
                          ELSE {}
                snapped == (IF data THEN {name} ELSE {}) \cup others
            IN /\ graphs' = graphs \cup {name}
               /\ loaded' = nudge_loaded(loaded, obranch, oturn, otick)
               /\ graph_keyframes' = graph_keyframes
                     \cup {<<g, obranch, oturn, otick>> : g \in snapped}
               /\ graph_new_keyframes' = graph_new_keyframes
                     \cup {<<g, obranch, oturn, otick>> : g \in snapped}
               /\ keyframes_list' = keyframes_list
                     \cup {<<g, obranch, oturn, otick>> : g \in others}
               /\ keyframes_times' = IF others = {} THEN keyframes_times
                                     ELSE keyframes_times \cup {<<obranch, oturn, otick>>}
               /\ err' = "none"

\* the engine creating graphs as the cursor moves
NextGraph ==
    /\ steps < MaxLoadSteps
    /\ \/ \E v \in LoadTurns : SetTurn(v)
       \/ \E v \in LoadTicks : SetTick(v)
       \/ \E name \in NewGraphNames, given \in GraphData : NewDigraph(name, given)

SpecGraph == Init /\ [][NextGraph]_vars

\* ------------------------------------------------------------ WindowDict
MaxKey == 2
MaxWindowSteps == 4
WdKeys == 0..MaxKey
\* a slice bound: << >> when omitted, <<k>> when given
SliceBounds == {<< >>} \cup {<<k>> : k \in WdKeys}

\* key in windd
WdHas(items, k) == \E i \in DOMAIN items : items[i][1] = k

\* windd[k] = v: the entry goes to its place in key order, replacing the one
\* that holds the key
WdInsertLast(items, k, v) == Append(items, <<k, v>>)

WdInsert(items, k, v) ==
    LET below(e) == e[1] < k
        above(e) == e[1] > k
    IN SelectSeq(items, below) \o <<<<k, v>>>> \o SelectSeq(items, above)

\* del windd[k] on a stored key
WdRemove(items, k) ==
    LET other(e) == e[1] # k
    IN SelectSeq(items, other)

\* windd.past(): the entries at or before the cursor, latest first
WdPastBelow(items, c) ==
    LET at(e) == e[1] < c
    IN Reverse(SelectSeq(items, at))

WdPast(items, c) ==
    LET at(e) == e[1] <= c
    IN Reverse(SelectSeq(items, at))

\* windd.future(): the entries after the cursor, earliest first
WdFuture(items, c) ==
    LET after(e) == e[1] > c
    IN SelectSeq(items, after)

\* windd[a:b]: an omitted bound is open-ended and a given lone bound is
\* included; with both bounds given the slice runs from a up to but not
\* including b, or from a down to but not including b; a = b is the entry at a
WdSliceClosed(items, a, b) ==
    LET lo == IF a = << >> THEN 0 ELSE a[1]
        hi == IF b = << >> THEN MaxKey ELSE b[1]
        up(e) == lo <= e[1] /\ e[1] <= hi
        down(e) == hi <= e[1] /\ e[1] <= lo
    IN IF lo <= hi THEN SelectSeq(items, up) ELSE Reverse(SelectSeq(items, down))

WdSliceOf(items, a, b) ==
    LET upto(e) == e[1] <= b[1]
        from(e) == e[1] >= a[1]
        up(e) == a[1] <= e[1] /\ e[1] < b[1]
        down(e) == b[1] < e[1] /\ e[1] <= a[1]
        at(e) == e[1] = a[1]
    IN IF a = << >> /\ b = << >> THEN items
       ELSE IF a = << >> THEN SelectSeq(items, upto)
       ELSE IF b = << >> THEN SelectSeq(items, from)
       ELSE IF a[1] < b[1] THEN SelectSeq(items, up)
       ELSE IF a[1] > b[1] THEN Reverse(SelectSeq(items, down))
       ELSE SelectSeq(items, at)

\* the values of a sequence of entries
WdValues(q) == [i \in DOMAIN q |-> q[i][2]]

\* what every WindowDict operation records about the call
WdCall(name, k) ==
    /\ op' = name /\ arg_b' = "" /\ arg_n' = k
    /\ steps' = steps + 1
    /\ UNCHANGED <<engineVars, issued, deltaVars, graphVars, no_kc, sent, turns_dump>>

\* windd[k] = v; the cursor ends at k
WdSet(k, v) ==
    /\ WdCall("wd_set", k)
    /\ wd_items' = WdInsert(wd_items, k, v)
    /\ wd_cursor' = k
    /\ wd_args' = <<k, v>>
    /\ err' = "none" /\ ret' = << >>

\* the delete that refuses the last remaining key
WdDelLastRefused(k) == Len(wd_items) = 1

\* the delete that is refused: the only remaining entry, with the cursor
\* before it
WdDelRefused(k) == Len(wd_items) = 1 /\ wd_cursor < k

\* del windd[k]
WdDel(k) ==
    /\ WdCall("wd_del", k)
    /\ ret' = << >>
    /\ UNCHANGED <<wd_cursor, wd_args>>
    /\ IF ~WdHas(wd_items, k)
       THEN err' = "KeyError" /\ UNCHANGED wd_items
       ELSE IF WdDelRefused(k)
       THEN err' = "HistoryError" /\ UNCHANGED wd_items
       ELSE err' = "none" /\ wd_items' = WdRemove(wd_items, k)

\* windd.seek(c); c may be any key, stored or not, or -1
WdSeek(c) ==
    /\ WdCall("wd_seek", c)
    /\ wd_cursor' = c
    /\ err' = "none" /\ ret' = << >>
    /\ UNCHANGED <<wd_items, wd_args>>

\* windd[k]
WdGet(k) ==
    /\ WdCall("wd_get", k)
    /\ UNCHANGED windowVars
    /\ IF wd_items = << >>
       THEN err' = "HistoryError" /\ ret' = << >>
       ELSE IF ~WdHas(wd_items, k)
       THEN err' = "KeyError" /\ ret' = << >>
       ELSE /\ err' = "none"
            /\ ret' = WdValues(WdSliceOf(wd_items, <<k>>, <<k>>))

\* a slice whose reversed() yields it unreversed
WdSliceForward(a, b, rev) ==
    /\ WdCall("wd_slice", 0)
    /\ wd_args' = <<a, b, rev>>
    /\ err' = "none"
    /\ ret' = WdValues(WdSliceOf(wd_items, a, b))
    /\ UNCHANGED <<wd_items, wd_cursor>>

\* list(windd[a:b]), or list(reversed(windd[a:b])) when rev
WdSlice(a, b, rev) ==
    /\ WdCall("wd_slice", 0)
    /\ wd_args' = <<a, b, rev>>
    /\ err' = "none"
    /\ ret' = IF rev THEN Reverse(WdValues(WdSliceOf(wd_items, a, b)))
              ELSE WdValues(WdSliceOf(wd_items, a, b))
    /\ UNCHANGED <<wd_items, wd_cursor>>

NextWindow ==
    /\ steps < MaxWindowSteps
    /\ \/ \E k \in WdKeys, v \in Values : WdSet(k, v)
       \/ \E k \in WdKeys : WdDel(k)
       \/ \E c \in WdKeys \cup {-1} : WdSeek(c)
       \/ \E k \in WdKeys : WdGet(k)
       \/ \E a \in SliceBounds, b \in SliceBounds, rev \in BOOLEAN : WdSlice(a, b, rev)

SpecWindow == Init /\ [][NextWindow]_vars

\* ------------------------------------------- leaving the mode contexts
MaxModeSteps == 5

\* PlanningContext.__exit__ when the with-block raised: the same restoring
\* as on a normal exit, and the exception goes on to the caller
PlanAbort ==
    /\ Call("plan_abort", "", 0)
    /\ ctx # << >> /\ ctx[Len(ctx)].kind = "plan"
    /\ planning' = FALSE
    /\ forward' = IF ctx[Len(ctx)].forward THEN TRUE ELSE forward
    /\ ctx' = SubSeq(ctx, 1, Len(ctx) - 1)
    /\ err' = "Exception" /\ ret' = << >>
    /\ UNCHANGED <<timeVars, tableVars, cacheVars, planVars, issued>>

\* the with-block of the innermost advancing() raises: the generator is
\* thrown into at its yield and the statement after the yield never runs
AdvancingAbort ==
    /\ Call("advancing_abort", "", 0)
    /\ ctx # << >> /\ ctx[Len(ctx)].kind = "advancing"
    /\ ctx' = SubSeq(ctx, 1, Len(ctx) - 1)
    /\ err' = "Exception" /\ ret' = << >>
    /\ UNCHANGED <<timeVars, tableVars, cacheVars, planning, forward, planVars, issued>>

\* what every batch operation records about the call
BatchCall(name) ==
    /\ op' = name /\ arg_b' = "" /\ arg_n' = 0
    /\ steps' = steps + 1
    /\ ret' = << >>
    /\ UNCHANGED <<timeVars, tableVars, cacheVars, planning, forward, planVars, issued,
                   deltaVars, graphVars, windowVars, sent, turns_dump>>

\* ORM.batch up to its yield
BatchEnter ==
    /\ BatchCall("batch_enter")
    /\ IF no_kc
       THEN err' = "ValueError" /\ UNCHANGED <<no_kc, ctx>>
       ELSE /\ no_kc' = TRUE
            /\ ctx' = Append(ctx, [kind |-> "batch", forward |-> FALSE])
            /\ err' = "none"

\* the with-block of the innermost batch() ends normally
BatchExit ==
    /\ BatchCall("batch_exit")
    /\ ctx # << >> /\ ctx[Len(ctx)].kind = "batch"
    /\ no_kc' = FALSE
    /\ ctx' = SubSeq(ctx, 1, Len(ctx) - 1)
    /\ err' = "none"

\* the with-block of the innermost batch() raises
BatchAbort ==
    /\ BatchCall("batch_abort")
    /\ ctx # << >> /\ ctx[Len(ctx)].kind = "batch"
    /\ ctx' = SubSeq(ctx, 1, Len(ctx) - 1)
    /\ err' = "Exception"
    /\ UNCHANGED no_kc

\* the engine entering and leaving its mode contexts, by either path
NextModes ==
    /\ steps < MaxModeSteps
    /\ \/ PlanEnter
       \/ PlanExit
       \/ PlanAbort
       \/ AdvancingEnter
       \/ AdvancingExit
       \/ AdvancingAbort
       \/ BatchEnter
       \/ BatchExit
       \/ BatchAbort

SpecModes == Init /\ [][NextModes]_vars

\* the engine moving its cursor inside and outside batch() blocks
NextBatch ==
    /\ steps < MaxModeSteps
    /\ \/ BatchEnter
       \/ BatchExit
       \/ \E v \in LoadTurns : SetTurn(v)
       \/ \E v \in LoadTicks : SetTick(v)
       \/ \E v \in LoadBranches : SetBranch(v)

SpecBatch == Init /\ [][NextBatch]_vars

\* ================================================================ claims
Cursor == <<obranch, oturn, otick>>

\* C1. Branch isolation: a write made with the cursor on branch b changes no
\* value read at any coordinate of a branch that is neither b nor a descendant
\* of b; and in the scenario x=1 at (trunk,0,1), b1 forked at (trunk,0,1),
\* x=2 at (b1,0,2), x reads 1 at (trunk,0,1), 2 at (b1,0,2), 1 at (trunk,0,2).
IsolationScenario ==
    /\ <<"trunk", 0, 1>> \in DOMAIN rows /\ rows[<<"trunk", 0, 1>>] = 1
    /\ "b1" \in DOMAIN branches
    /\ branches["b1"].parent = "trunk"
    /\ branches["b1"].turn_start = 0 /\ branches["b1"].tick_start = 1
    /\ <<"b1", 0, 2>> \in DOMAIN rows /\ rows[<<"b1", 0, 2>>] = 2
    /\ <<"trunk", 0, 2>> \notin DOMAIN rows
BranchIsolation ==
    /\ [][(op' = "write" /\ err' = "none") =>
            \A c \in DOMAIN branches :
                (c # obranch /\ obranch \notin Ancestors(branches, c)) =>
                    \A t \in Turns, k \in Ticks :
                        Retrieve(rows', branches', c, t, k) = Retrieve(rows, branches, c, t, k)]_vars
    /\ [](IsolationScenario =>
            /\ Retrieve(rows, branches, "trunk", 0, 1) = 1
            /\ Retrieve(rows, branches, "b1", 0, 2) = 2
            /\ Retrieve(rows, branches, "trunk", 0, 2) = 1)
BranchIsolationWitness ==
    IsolationScenario /\ op = "write" /\ err = "none" /\ ret = <<"b1", 0, 2>>

\* C2. Requesting the next write coordinate while the cursor's turn is earlier
\* than a turn on which the branch has a recorded non-planned write raises
\* HistoryError and records nothing.
LaterUnplannedWrite ==
    \E c \in DOMAIN rows : c[1] = obranch /\ c[2] > oturn /\ c \notin DOMAIN time_plan
WritePastRefused ==
    [][(op' = "write" /\ LaterUnplannedWrite) =>
          /\ err' = "HistoryError"
          /\ UNCHANGED <<Cursor, rows, branches, turn_end_plan, loaded, planVars, issued>>]_vars

\* C3. In forward mode outside a plan, a move of the turn (turn setter or time
\* setter on the current branch) to t+2 or later, or before t, raises TimeError
\* and leaves the cursor; a move to t+1 succeeds.
ForwardTurnMove ==
    /\ forward /\ ~planning
    /\ \/ op' = "set_turn"
       \/ op' = "set_time" /\ arg_b' = obranch
ForwardTurnMonotone ==
    [][ForwardTurnMove =>
          /\ (arg_n' > oturn + 1 \/ arg_n' < oturn) =>
                (err' = "TimeError" /\ UNCHANGED Cursor)
          /\ arg_n' = oturn + 1 =>
                (err' = "none" /\ oturn' = oturn + 1 /\ obranch' = obranch)]_vars

\* C4. In forward mode outside a plan, every attempt to change the cursor's
\* branch (branch setter or time setter, to an existing or a new branch) raises
\* TimeError and leaves the cursor's branch and the branch table unchanged.
ForwardBranchLock ==
    [][(forward /\ ~planning /\ op' \in {"set_branch", "set_time"} /\ arg_b' # obranch) =>
          (err' = "TimeError" /\ obranch' = obranch /\ branches' = branches)]_vars

\* C5. Outside a plan, requesting the next write coordinate raises HistoryError
\* whenever the cursor's tick is lower than the most advanced tick recorded for
\* the current (branch, turn), and succeeds only at that most advanced tick.
MostAdvancedTick == DGet(turn_end, <<obranch, oturn>>)
AppendOnlyFrontier ==
    [][(op' = "write" /\ ~planning) =>
          /\ otick < MostAdvancedTick => err' = "HistoryError"
          /\ err' = "none" => otick >= MostAdvancedTick]_vars

\* C6. No two successful next-coordinate requests return the same (branch,
\* turn, tick), and within one (branch, turn) the ticks returned increase
\* strictly in call order.
WriteCoordinatesFresh ==
    [][(op' = "write" /\ err' = "none") =>
          /\ ret' \notin issued
          /\ \A c \in issued : (c[1] = ret'[1] /\ c[2] = ret'[2]) => c[3] < ret'[3]]_vars
WriteCoordinatesFreshWitness ==
    /\ op = "write" /\ err = "none"
    /\ \E c \in issued : c[1] = ret[1] /\ c[2] = ret[2] /\ c[3] < ret[3]
    /\ otick > ret[3] - 1

\* C7. Switching to a branch that does not exist yet (branch setter or time
\* setter) creates it with parent = the branch the cursor was on and fork
\* point = the cursor's (turn, tick); the cursor is then on the new branch at
\* that same turn and tick.
ForkFromCursor ==
    [][(op' \in {"set_branch", "set_time"} /\ arg_b' \notin DOMAIN branches /\ err' = "none") =>
          /\ arg_b' \in DOMAIN branches'
          /\ branches'[arg_b'].parent = obranch
          /\ branches'[arg_b'].turn_start = oturn
          /\ branches'[arg_b'].tick_start = otick
          /\ Cursor' = <<arg_b', oturn, otick>>]_vars

\* C8 as stated. Switching (branch setter or time setter) to an existing
\* non-root branch while the cursor's turn is earlier than that branch's fork
\* turn raises ValueError and leaves the cursor where it was. (For the time
\* setter the requested turn is taken to be before the fork turn as well.)
SwitchToExisting ==
    /\ op' \in {"set_branch", "set_time"}
    /\ arg_b' # obranch /\ arg_b' # "trunk" /\ arg_b' \in DOMAIN branches
SwitchBeforeForkRefused ==
    [][(/\ SwitchToExisting
        /\ oturn < branches[arg_b'].turn_start
        /\ op' = "set_time" => arg_n' < branches[arg_b'].turn_start) =>
          (err' = "ValueError" /\ UNCHANGED Cursor)]_vars
\* C8 amended. The branch setter raises ValueError when the cursor's turn is
\* earlier than the fork turn of the existing non-root branch; the time setter
\* compares the requested turn instead: a requested turn earlier than the fork
\* turn raises ValueError, or TimeError in forward mode outside a plan. The
\* cursor stays where it was in each case.
SwitchBeforeForkRefusedAmended ==
    [][SwitchToExisting =>
          /\ (op' = "set_branch" /\ oturn < branches[arg_b'].turn_start) =>
                (err' = "ValueError" /\ UNCHANGED Cursor)
          /\ (op' = "set_time" /\ arg_n' < branches[arg_b'].turn_start) =>
                /\ err' = (IF forward /\ ~planning THEN "TimeError" ELSE "ValueError")
                /\ UNCHANGED Cursor]_vars
SwitchBeforeForkWitness ==
    /\ op = "set_branch" /\ err = "ValueError" /\ ~planning
    /\ arg_b \in DOMAIN branches /\ oturn < branches[arg_b].turn_start

\* C9. If the current branch is not the root, the cursor's (turn, tick) is at
\* or after that branch's fork (turn, tick).
CursorInBranchRange ==
    obranch # "trunk" =>
        AtOrBefore(branches[obranch].turn_start, branches[obranch].tick_start, oturn, otick)

\* C10. Entering a planning context while one is open raises ValueError and
\* changes nothing: no plan id is allocated, no plan is recorded, the planning
\* and forward flags keep their values and the outer context stays open.
NestedPlanRefused ==
    [][(op' = "plan_enter" /\ planning) =>
          /\ err' = "ValueError"
          /\ UNCHANGED <<planVars, planning, forward, ctx>>]_vars
NestedPlanRefusedWitness ==
    op = "plan_enter" /\ err = "ValueError" /\ planning /\ last_plan = 0

\* C11. While a planning context is open, every cursor operation naming a
\* branch that does not exist yet (branch setter or time setter) raises an
\* error and leaves the branch table and the cursor unchanged.
NoBranchWhilePlanning ==
    [][(planning /\ op' \in {"set_branch", "set_time"} /\ arg_b' \notin DOMAIN branches) =>
          (err' # "none" /\ branches' = branches /\ UNCHANGED Cursor)]_vars

\* C12. Entering a planning context allocates a fresh plan id recorded with
\* the entry coordinate and turns forward mode off; while the context is open
\* forward mode stays off and a move of the turn inside the branch's range,
\* backward or skipping, is accepted; leaving the context clears the planning
\* flag and sets forward mode to the value it had at entry.
PlanTurnMoveInRange ==
    /\ planning /\ op' = "set_turn"
    /\ obranch = "trunk" \/ arg_n' >= branches[obranch].turn_start
PlanModeContract ==
    /\ [][(op' = "plan_enter" /\ err' = "none") =>
            /\ last_plan' \notin DOMAIN plans
            /\ plans'[last_plan'] = Cursor
            /\ planning' /\ ~forward']_vars
    /\ [](planning => ~forward)
    /\ [][PlanTurnMoveInRange => err' = "none"]_vars
    /\ [][op' = "plan_exit" =>
            (~planning' /\ forward' = ctx[Len(ctx)].forward)]_vars

\* C13. Whenever a new branch is created (branch setter or time setter), every
\* plan of the parent branch that began at or before the fork point and has
\* planned ticks at or after it is copied onto the new branch under a fresh
\* plan id holding exactly those ticks, and every existing plan keeps its
\* start coordinate and its ticks.
ForkTimes(p, fork) ==
    {c \in PlanTimes(plan_ticks, p) : AtOrBefore(fork[1], fork[2], c[1], c[2])}
PlanToCopy(p, fork) ==
    /\ plans[p][1] = obranch
    /\ AtOrBefore(plans[p][2], plans[p][3], fork[1], fork[2])
    /\ ForkTimes(p, fork) # {}
PlansCopiedOnFork ==
    [][(op' \in {"set_branch", "set_time"} /\ arg_b' \notin DOMAIN branches /\ err' = "none") =>
          LET fork == <<branches'[arg_b'].turn_start, branches'[arg_b'].tick_start>>
          IN /\ \A p \in DOMAIN plans :
                    PlanToCopy(p, fork) =>
                        \E q \in DOMAIN plans' \ DOMAIN plans :
                            /\ plans'[q][1] = arg_b'
                            /\ PlanTimes(plan_ticks', q) = ForkTimes(p, fork)
             /\ \A p \in DOMAIN plans :
                    /\ plans'[p] = plans[p]
                    /\ PlanTicksOf(plan_ticks', p) = PlanTicksOf(plan_ticks, p)]_vars

\* C14. delete_plan(p) removes from plan p, on whichever branch it was made,
\* every planned (turn, tick) at or after the cursor and no other; afterwards
\* none of the removed coordinates is attributed to a plan, and every other
\* plan keeps its ticks and its coordinates.
PlanGone(p) ==
    {c \in PlanTimes(plan_ticks, p) : AtOrBefore(oturn, otick, c[1], c[2])}
PlanCoordinatesGone(p) ==
    {k \in DOMAIN time_plan : time_plan[k] = p /\ AtOrBefore(oturn, otick, k[2], k[3])}
DeletePlanRollsBack ==
    [][op' = "delete_plan" =>
          LET p == arg_n'
          IN /\ err' = "none"
             /\ PlanTimes(plan_ticks', p) = PlanTimes(plan_ticks, p) \ PlanGone(p)
             /\ \A k \in PlanCoordinatesGone(p) : k \notin DOMAIN time_plan'
             /\ \A q \in DOMAIN plans \ {p} :
                    PlanTicksOf(plan_ticks', q) = PlanTicksOf(plan_ticks, q)
             /\ \A k \in DOMAIN time_plan :
                    time_plan[k] # p => (k \in DOMAIN time_plan' /\ time_plan'[k] = time_plan[k])]_vars

\* C15. unload() never removes the most recent keyframe preceding the cursor:
\* whenever unload() returns after a call made with the cursor inside its
\* branch and that keyframe (on the cursor's branch or on an ancestor)
\* resident, afterwards its branch is still in the loaded map with a window that covers the keyframe and the way from it to the
\* cursor, and the keyframe and the rows between it and the cursor are still
\* in the caches.
RECURSIVE PrecedingKeyframe(_, _)
PrecedingKeyframe(kf, path) ==
    IF path = << >> THEN NoKeyframe
    ELSE LET k == KeyframeHere(kf, Head(path)[1], Head(path)[2], Head(path)[3])
         IN IF k # NoKeyframe THEN <<k, Head(path)>>
            ELSE PrecedingKeyframe(kf, Tail(path))
CursorKeyframe == PrecedingKeyframe(kfc, iter_parent_btt(branches, obranch, oturn, otick))
KeyframeResident ==
    /\ AtOrBefore(branches[obranch].turn_start, branches[obranch].tick_start, oturn, otick)
    /\ CursorKeyframe # NoKeyframe
    /\ CursorKeyframe[1][1] \in DOMAIN loaded
    /\ LET k == CursorKeyframe[1]
           w == loaded[k[1]]
       IN loaded_keep_test(k[2], k[3], w[1], w[2], w[3], w[4])
UnloadKeepsKeyframe ==
    [][(op' = "unload" /\ err' = "none" /\ KeyframeResident) =>
         LET k == CursorKeyframe[1]
             upto == CursorKeyframe[2]
         IN /\ k \in DOMAIN kfc'
            /\ k[1] \in DOMAIN loaded'
            /\ loaded_keep_test(k[2], k[3], loaded'[k[1]][1], loaded'[k[1]][2],
                                loaded'[k[1]][3], loaded'[k[1]][4])
            /\ loaded_keep_test(upto[2], upto[3], loaded'[k[1]][1], loaded'[k[1]][2],
                                loaded'[k[1]][3], loaded'[k[1]][4])
            /\ \A c \in DOMAIN rows :
                  (c[1] = k[1] /\ AtOrBefore(k[2], k[3], c[2], c[3])
                               /\ AtOrBefore(c[2], c[3], upto[2], upto[3]))
                  => c \in DOMAIN rows']_vars

\* C17. Unloading failures are reported, not raised: unload() always returns
\* without raising; when there is no keyframe, or no branch of the cursor's
\* lineage is loaded, it leaves the loaded windows and the caches untouched,
\* and in the latter case it gives a warning.
NoRetentionWindow ==
    \A i \in DOMAIN iter_parent_btt(branches, obranch, oturn, otick) :
        iter_parent_btt(branches, obranch, oturn, otick)[i][1] \notin DOMAIN loaded
UnloadReportsRefusal ==
    [][op' = "unload" =>
         /\ err' = "none"
         /\ (keyframes_times = {} \/ NoRetentionWindow) => UNCHANGED <<loaded, rows, kfc>>
         /\ (keyframes_times # {} /\ NoRetentionWindow) => ret' = <<"warning">>]_vars

\* C18. Past-keyframe selection: the past keyframe _load_at picks for a target
\* coordinate lies in the target's own past (on the target's branch at or
\* before the target, or on an ancestor at or before the point where the
\* target's lineage left it), it is the nearest such keyframe, and the pick is
\* the same in whatever order the keyframes are enumerated.
OwnPast(c, path) ==
    \E i \in DOMAIN path : path[i][1] = c[1] /\ AtOrBefore(c[2], c[3], path[i][2], path[i][3])
NearestPastKeyframe(path) ==
    LET k == PrecedingKeyframe([c \in keyframes_times |-> NoValue], path)
    IN IF k = NoKeyframe THEN NoKeyframe ELSE k[1]
PastKeyframeNearest ==
    [][op' = "load_at" =>
         LET path == iter_parent_btt(branches, obranch, oturn, otick)
         IN /\ ret'[1] # NoKeyframe => OwnPast(ret'[1], path)
            /\ ret'[1] = NearestPastKeyframe(path)
            /\ \A r \in LoadAtAny(obranch, oturn, otick) : r.past = ret'[1]]_vars

DeltaForward == dargs # << >> /\ Before(dargs[1], dargs[2], dargs[3], dargs[4])
ChangedBetween(settings, node) ==
    \E i \in DOMAIN settings :
        /\ settings[i].node = node
        /\ After(settings[i].turn, settings[i].tick, dargs[1], dargs[2])
        /\ AtOrBefore(settings[i].turn, settings[i].tick, dargs[3], dargs[4])
DeltaAgreesWithReads ==
    (op = "get_delta" /\ DeltaForward) =>
        /\ \A n \in DOMAIN delta.nodes :
              delta.nodes[n] = RetrieveAt(nodes_settings, n, dargs[3], dargs[4], FALSE)
        /\ \A n \in DOMAIN delta.node_val :
              delta.node_val[n] = RetrieveAt(node_val_settings, n, dargs[3], dargs[4], NoValue)
        /\ \A n \in DeltaNodes :
              ChangedBetween(nodes_settings, n) => n \in DOMAIN delta.nodes

\* C20. Delta precedence for nodes: in every delta get_delta returns, within
\* one turn and across turns, a node recorded as deleted has no node_val entry.
DeletedNodeHasNoVal ==
    \A n \in DOMAIN delta.nodes : ~delta.nodes[n] => n \notin DOMAIN delta.node_val
DeletedNodeHasNoValWitness ==
    /\ op = "get_delta" /\ dargs[1] # dargs[3]
    /\ \E n \in DOMAIN delta.nodes :
          /\ ~delta.nodes[n]
          /\ ChangedBetween(node_val_settings, n)

\* C21. Delta precedence for edges: in every delta get_delta returns, within
\* one turn and across turns, for simple graphs and multigraphs, an edge
\* recorded as deleted has no edge_val entry.
DeletedEdgeHasNoVal ==
    \A e \in DOMAIN delta.edges : ~delta.edges[e] => e \notin DOMAIN delta.edge_val

\* C22. Same-turn deltas depend only on their arguments: get_delta(branch, T,
\* k1, T, k2), for every T >= 0 and k1, k2 >= 0, returns what the scan of turn
\* T between ticks k1 and k2 yields, wherever the caller's cursor is.
SameTurnDeltaByArguments ==
    [][(op' = "get_delta" /\ dargs'[1] = dargs'[3]) =>
         delta' = turn_delta(dargs'[5], dargs'[1], dargs'[2], dargs'[4])]_vars

\* C23. Creating a graph takes an immediate keyframe: after a successful
\* new_digraph(name, data) at the cursor (b, t, k), with or without data and
\* whatever other graphs exist, (name, b, t, k) is in the keyframe list, (b, t,
\* k) is in the keyframe times, and the keyframe is queued for commit.
NewGraphKeyframed ==
    [][(op' = "new_digraph" /\ err' = "none") =>
         /\ <<arg_b', obranch', oturn', otick'>> \in keyframes_list'
         /\ <<obranch', oturn', otick'>> \in keyframes_times'
         /\ <<arg_b', obranch', oturn', otick'>> \in graph_new_keyframes']_vars

\* the keys of a sequence of entries
KeysOf(q) == [i \in DOMAIN q |-> q[i][1]]
\* a sequence of keys is in ascending order with no key twice
Ascending(ks) == \A i \in DOMAIN ks, j \in DOMAIN ks : i < j => ks[i] < ks[j]

\* C24. WindowDict keys: after set(k, v) the keys are the earlier keys and k,
\* and k holds v; after a successful delete of k they are the earlier keys
\* without k; seek and the reads leave the entries as they are; and in every
\* state keys() is in ascending order with each key once.
WindowDictKeys ==
    /\ [][op' = "wd_set" =>
            /\ SeqRange(KeysOf(wd_items')) = SeqRange(KeysOf(wd_items)) \cup {arg_n'}
            /\ <<arg_n', wd_args'[2]>> \in SeqRange(wd_items')
            /\ {e \in SeqRange(wd_items') : e[1] # arg_n'}
                  = {e \in SeqRange(wd_items) : e[1] # arg_n'}
            /\ Len(wd_items') = Len(wd_items) + (IF WdHas(wd_items, arg_n') THEN 0 ELSE 1)]_vars
    /\ [][(op' = "wd_del" /\ err' = "none") =>
            SeqRange(wd_items') = {e \in SeqRange(wd_items) : e[1] # arg_n'}]_vars
    /\ [][op' \in {"wd_seek", "wd_get", "wd_slice"} => wd_items' = wd_items]_vars
    /\ [](Ascending(KeysOf(wd_items)))

WindowDictKeysWitness ==
    /\ op = "wd_del" /\ err = "none"
    /\ wd_cursor = 0
    /\ KeysOf(wd_items) = <<0, 2>>
    /\ wd_items[2] = <<2, 2>>

\* C25. WindowDict past/future partition: for every cursor position c, past()
\* holds exactly the entries with key <= c, latest first, future() exactly
\* those with key > c, earliest first; reversed past followed by future is
\* the item list, and no entry is in both.
WindowDictPartition ==
    \A c \in WdKeys \cup {-1} :
       LET past == WdPast(wd_items, c)
           future == WdFuture(wd_items, c)
       IN /\ SeqRange(past) = {e \in SeqRange(wd_items) : e[1] <= c}
          /\ SeqRange(future) = {e \in SeqRange(wd_items) : e[1] > c}
          /\ Ascending(KeysOf(Reverse(past)))
          /\ Ascending(KeysOf(future))
          /\ Reverse(past) \o future = wd_items
          /\ SeqRange(past) \cap SeqRange(future) = {}

WindowDictPartitionWitness ==
    /\ op = "wd_seek" /\ wd_cursor = 1
    /\ KeysOf(wd_items) = <<0, 1, 2>>
    /\ KeysOf(WdPast(wd_items, wd_cursor)) = <<1, 0>>
    /\ KeysOf(WdFuture(wd_items, wd_cursor)) = <<2>>

\* the value stored under key k
ValueAt(items, k) == (CHOOSE e \in SeqRange(items) : e[1] = k)[2]
\* the values of the stored keys among ks, a sequence of keys, in its order
ValuesAt(items, ks) ==
    LET stored(k) == WdHas(items, k)
        there == SelectSeq(ks, stored)
    IN [i \in DOMAIN there |-> ValueAt(items, there[i])]
\* range(a, b + 1) and its reverse
KeyRange(a, b) == [i \in 1..(b + 1 - a) |-> a + i - 1]
KeyRangeDown(a, b) == [i \in 1..(a + 1 - b) |-> a + 1 - i]

\* C26. WindowDict slicing with both bounds included: for a <= b, an omitted
\* bound being open-ended, wd[a:b] yields the values of the stored keys
\* a <= k <= b in ascending order; for a > b the values of the same keys in
\* descending order.
SliceBoundsIncluded ==
    [][(op' = "wd_slice" /\ ~wd_args'[3]) =>
         LET a == IF wd_args'[1] = << >> THEN 0 ELSE wd_args'[1][1]
             b == IF wd_args'[2] = << >> THEN MaxKey ELSE wd_args'[2][1]
         IN ret' = IF a <= b THEN ValuesAt(wd_items, KeyRange(a, b))
                   ELSE ValuesAt(wd_items, KeyRangeDown(a, b))]_vars

\* C26, amended. With both bounds given the far bound is left out: for a < b
\* wd[a:b] yields the values of the stored keys a <= k < b in ascending
\* order, for a > b those of the stored keys a >= k > b in descending order;
\* a lone bound is included, the omitted side being open-ended.
SliceFarBoundExcluded ==
    [][(op' = "wd_slice" /\ ~wd_args'[3] /\ wd_args'[1] # wd_args'[2]) =>
         LET a == wd_args'[1]
             b == wd_args'[2]
         IN ret' = IF a = << >> THEN ValuesAt(wd_items, KeyRange(0, b[1]))
                   ELSE IF b = << >> THEN ValuesAt(wd_items, KeyRange(a[1], MaxKey))
                   ELSE IF a[1] < b[1] THEN ValuesAt(wd_items, KeyRange(a[1], b[1] - 1))
                   ELSE ValuesAt(wd_items, KeyRangeDown(a[1], b[1] + 1))]_vars

SliceFarBoundExcludedWitness ==
    /\ op = "wd_slice" /\ wd_args = <<<<0>>, <<2>>, FALSE>>
    /\ wd_items = <<<<0, 1>>, <<2, 2>>>>
    /\ ret = <<1>>

\* C27. WindowDict deletion: a successful delete of a stored key removes it
\* from the items and from membership, and reading the key afterwards raises
\* KeyError (HistoryError being a KeyError); deleting a key that is not stored
\* raises KeyError; deleting the only remaining key raises HistoryError.
DeleteLastKeyRefused ==
    [][op' = "wd_del" =>
         IF ~WdHas(wd_items, arg_n') THEN err' \in {"KeyError", "HistoryError"}
         ELSE IF Len(wd_items) = 1 THEN err' = "HistoryError"
         ELSE err' = "none" /\ ~WdHas(wd_items', arg_n')]_vars

\* C27, amended. Deleting a stored key succeeds also when it is the only
\* remaining key and the cursor is at or after it, and leaves the WindowDict
\* without the key; it is reading a key of the emptied WindowDict that raises
\* HistoryError, and reading a deleted key while others remain, or deleting
\* a key that is not stored, raises KeyError.
DeleteLastKeyAllowed ==
    /\ [][op' = "wd_del" =>
            IF ~WdHas(wd_items, arg_n') THEN err' \in {"KeyError", "HistoryError"}
            ELSE IF Len(wd_items) = 1 /\ wd_cursor < arg_n' THEN err' = "HistoryError"
            ELSE /\ err' = "none"
                 /\ ~WdHas(wd_items', arg_n')
                 /\ SeqRange(wd_items') = SeqRange(wd_items) \ {<<arg_n', ValueAt(wd_items, arg_n')>>}]_vars
    /\ [][op' = "wd_get" =>
            IF wd_items = << >> THEN err' = "HistoryError"
            ELSE IF ~WdHas(wd_items, arg_n') THEN err' = "KeyError"
            ELSE err' = "none" /\ ret' = <<ValueAt(wd_items, arg_n')>>]_vars

DeleteLastKeyAllowedWitness ==
    /\ op = "wd_get" /\ err = "HistoryError"
    /\ wd_items = << >>
    /\ wd_cursor = 2
    /\ steps = 3

\* C28. WindowDict slicing as test_slice states it: on a WindowDict that
\* holds every key 0..MaxKey, windd[:b] is [windd[i] for i in range(b + 1)],
\* windd[a:] is [windd[i] for i in range(a, MaxKey + 1)], windd[a:b] with
\* a < b is [windd[i] for i in range(a, b)], windd[a:b] with a > b is
\* [windd[i] for i in range(a, b, -1)], and reversed() of each is the same
\* list in the opposite order.
SliceAsTested ==
    [][(/\ op' = "wd_slice"
        /\ KeysOf(wd_items) = KeyRange(0, MaxKey)
        /\ wd_args'[1] # wd_args'[2]) =>
         LET a == wd_args'[1]
             b == wd_args'[2]
             keys == IF a = << >> THEN KeyRange(0, b[1])
                     ELSE IF b = << >> THEN KeyRange(a[1], MaxKey)
                     ELSE IF a[1] < b[1] THEN KeyRange(a[1], b[1] - 1)
                     ELSE KeyRangeDown(a[1], b[1] + 1)
             forwards == [i \in DOMAIN keys |-> ValueAt(wd_items, keys[i])]
         IN ret' = IF wd_args'[3]
                   THEN [i \in DOMAIN keys |-> forwards[Len(keys) + 1 - i]]
                   ELSE forwards]_vars

SliceAsTestedWitness ==
    /\ op = "wd_slice" /\ wd_args = <<<<2>>, <<0>>, TRUE>>
    /\ wd_items = <<<<0, 1>>, <<1, 1>>, <<2, 2>>>>
    /\ ret = <<1, 2>>

\* C29. Engine modes are mutually exclusive: under any nesting and ordering
\* of plan() and advancing() the engine is idle, forward-advancing or
\* planning, and the planning flag and the forward flag are never both set.
ModesExclusive == ~(planning /\ forward)

\* C30. Mode guards restore on every exit path: when an advancing(), batch()
\* or plan() block is left, normally or by an exception raised inside it, the
\* flag the context set (forward, the batch flag, planning) is cleared, so
\* that the same kind of context can be entered again.
GuardsRestored ==
    /\ [][op' \in {"advancing_exit", "advancing_abort"} => ~forward']_vars
    /\ [][op' \in {"batch_exit", "batch_abort"} => ~no_kc']_vars
    /\ [][op' \in {"plan_exit", "plan_abort"} => ~planning']_vars

\* C31. Branch ancestry bookkeeping: the recorded ancestor set of every branch
\* is the set of branches on its parent chain up to the root, so a newly
\* forked branch has the branch it was forked from and all of that branch's
\* ancestors as its ancestors, and no branch is its own ancestor or the
\* ancestor of its own parent.
AncestryRecorded ==
    \A b \in DOMAIN branches :
       /\ BranchParentsOf(branch_parents, b) = Ancestors(branches, b)
       /\ b \notin BranchParentsOf(branch_parents, b)
       /\ b \notin BranchParentsOf(branch_parents, branches[b].parent)

\* C32. Time-change notification: an assignment to the (branch, turn) time
\* pair that succeeds and changes the branch or the turn sends exactly one
\* notification, which carries the previous and the new (branch, turn, tick)
\* and is sent when the cursor already is at the new coordinate; an
\* assignment of the current (branch, turn) and a rejected assignment send
\* none.
TimeChangeNotified ==
    [][op' = "set_time" =>
         IF err' = "none" /\ <<arg_b', arg_n'>> # <<obranch, oturn>>
         THEN /\ Len(sent') = 1
              /\ <<sent'[1].branch_then, sent'[1].turn_then, sent'[1].tick_then>>
                    = <<obranch, oturn, otick>>
              /\ <<sent'[1].branch_now, sent'[1].turn_now, sent'[1].tick_now>>
                    = <<obranch', oturn', otick'>>
              /\ sent'[1].cursor = <<obranch', oturn', otick'>>
              /\ <<obranch', oturn'>> = <<arg_b', arg_n'>>
         ELSE sent' = << >>]_vars

TimeChangeNotifiedWitness ==
    /\ op = "set_time" /\ err = "none"
    /\ Len(sent) = 1
    /\ sent[1].tick_then # sent[1].tick_now
    /\ sent[1].turn_then # sent[1].turn_now

\* C33. Commit persists turn ends faithfully: after commit() the backend
\* holds, for every (branch, turn) of the plan-end table, that (branch,
\* turn)'s own recorded end tick and plan end tick, and the in-memory turn-end
\* tables are as they were before the commit.
CommitKeepsTurnEnds ==
    [][op' = "commit" =>
         /\ \A k \in DOMAIN turn_end_plan :
               /\ k \in DOMAIN turns_dump'
               /\ turns_dump'[k] = <<DGet(turn_end, k), turn_end_plan[k]>>
         /\ turn_end' = turn_end
         /\ turn_end_plan' = turn_end_plan]_vars

\* C34. Rejected graph creation leaves nothing behind: a new_digraph that
\* raises GraphNameError (name in use, illegal name) or ValueError (malformed
\* data) registers no graph, records and queues no keyframe and leaves the
\* loaded-window map as it was.
RejectedGraphLeavesNothing ==
    [][(op' = "new_digraph" /\ err' # "none") =>
         /\ err' \in {"GraphNameError", "ValueError"}
         /\ graphs' = graphs
         /\ keyframes_list' = keyframes_list
         /\ keyframes_times' = keyframes_times
         /\ graph_keyframes' = graph_keyframes
         /\ graph_new_keyframes' = graph_new_keyframes
         /\ loaded' = loaded]_vars

\* the cursor's branch has a loaded window and the cursor is inside it
CursorLoaded(ld, branch, turn, tick) ==
    /\ branch \in DOMAIN ld
    /\ loaded_keep_test(turn, tick, ld[branch][1], ld[branch][2], ld[branch][3],
                        ld[branch][4])

\* C35. The cursor is always inside the loaded window: after every successful
\* cursor move (branch, turn, tick or time setter), write and unload, the
\* cursor's branch has an entry in the loaded-window map and that window
\* contains the cursor's (turn, tick).
CursorInsideLoaded ==
    [][(/\ op' \in {"set_branch", "set_turn", "set_tick", "set_time", "write", "unload"}
        /\ err' = "none") =>
         CursorLoaded(loaded', obranch', oturn', otick')]_vars

\* C36. Loaded windows are well formed: in every reachable state the window
\* of every branch in the loaded-window map starts at or before its end.
LoadedWellFormed ==
    \A b \in DOMAIN loaded :
       AtOrBefore(loaded[b][1], loaded[b][2], loaded[b][3], loaded[b][4])

\* C37. A branch's recorded end never moves backward: under every operation
\* the end (turn, tick) of every branch is at or after its previous value,
\* and the end of every branch is at or after the branch's fork point.
BranchEndMonotone ==
    [][/\ \A b \in DOMAIN branches :
             AtOrBefore(branches[b].turn_end, branches[b].tick_end,
                        branches'[b].turn_end, branches'[b].tick_end)
       /\ \A b \in DOMAIN branches' :
             AtOrBefore(branches'[b].turn_start, branches'[b].tick_start,
                        branches'[b].turn_end, branches'[b].tick_end)]_vars

\* C38. A rejected cursor move changes nothing: when the branch, turn, tick
\* or time setter raises TimeError, ValueError or TypeError, the cursor, the
\* branch table, the turn-end and plan-turn-end tables and the loaded-window
\* map are as they were before the call.
RejectedMoveChangesNothing ==
    [][(/\ op' \in {"set_branch", "set_turn", "set_tick", "set_time"}
        /\ err' \in {"TimeError", "ValueError", "TypeError"}) =>
         /\ <<obranch', oturn', otick'>> = <<obranch, oturn, otick>>
         /\ branches' = branches
         /\ turn_end' = turn_end
         /\ turn_end_plan' = turn_end_plan
         /\ loaded' = loaded]_vars

\* C39. The two ways of changing turn agree: outside forward and planning
\* mode a successful move to another turn v of the current branch, made with
\* the turn setter or with the (branch, turn) time setter, ends on the same
\* cursor, (branch, v) at the plan-end tick recorded for (branch, v) or tick
\* 0 when nothing is recorded, and leaves the same branch table, the one the
\* turn setter leaves.
TurnSettersAgree ==
    [][(/\ \/ op' = "set_turn"
           \/ op' = "set_time" /\ arg_b' = obranch
        /\ arg_n' # oturn
        /\ ~forward /\ ~planning
        /\ err' = "none") =>
         /\ <<obranch', oturn'>> = <<obranch, arg_n'>>
         /\ otick' = DGet(turn_end_plan, <<obranch, arg_n'>>)
         /\ branches' = branches]_vars

\* C40. Cursor moves work inside a batch: while a batch() block is open, a
\* branch, turn or tick assignment raises ValueError only when one of the
\* setter's own checks rejects it, as it would outside the block, also when
\* the move pages history in; and the batch flag stays set until the block
\* is left.
MovesWorkInBatch ==
    /\ [][(no_kc /\ err' = "ValueError") =>
            \/ op' = "set_turn"
                  /\ (SetTurnArrow(arg_n')
                      \/ (obranch # "trunk" /\ arg_n' < branches[obranch].turn_start))
            \/ op' = "set_tick" /\ SetTickArrow(arg_n')
            \/ op' = "set_branch"
                  /\ (SetBranchPlanning \/ SetBranchBeforeFork(arg_b', oturn))
            \/ op' = "batch_enter"]_vars
    /\ [][(no_kc /\ op' # "batch_exit") => no_kc']_vars
====
